---- MODULE Spec2Model ----
(***************************************************************************)
(* Model of src/curva_a_ml.py: the scraper worker (ScraperThread.run), the *)
(* detail-page visit (open_pdp, wait_pdp_ready, looks_like_antibot), the   *)
(* per-Term candidate selection and the final consolidation                *)
(* (sort / regroup / comparar_precos_por_consulta).                        *)
(*                                                                         *)
(* Calls on the browsing collaborator (Playwright) are modelled by their   *)
(* possible outcomes: a value, a PWTimeout, or any other exception.        *)
(***************************************************************************)
EXTENDS Integers, Sequences, FiniteSets, TLC

VARIABLES
    pc,            \* position of the worker inside ScraperThread.run / open_pdp
    termos,        \* Term list returned by load_terms_from_excel
    first_n,       \* cfg.first_n
    idx,           \* 1-based index of the current Term (enumerate(termos, start=1))
    stop_evt,      \* the shared threading.Event
    nossas_lojas,  \* cfg.nossas_lojas: the monitored-store names
    served,        \* number of result cards get_cards has returned in this run
    cards,         \* result cards of the current Term, as returned by get_cards
    i,             \* 1-based index in the card scan loop
    selecionados,  \* candidates selected for the current Term
    vistos_links,  \* links already selected in the current Term
    j,             \* 1-based index in the candidate loop
    attempt,       \* open_pdp: attempt number
    body,          \* detail page: what page.inner_text("body") yields after a navigation
    reloaded,      \* open_pdp: the reload of this attempt was already issued
    shot,          \* open_pdp: outcome of the last screenshot call of this visit
    ok,            \* value returned by open_pdp for the current candidate
    abandoned,     \* some candidate of the current Term was given up by open_pdp
    todos,         \* run buffer of EnrichedRecords
    parcial,       \* rows of resultado_curvaA_parcial.xlsx written by this run
    final,         \* rows of resultado_curvaA.xlsx written by this run
    n_final,       \* number of writes of the final artifact
    progress_q,    \* every tuple put on progress_q, in order
    last_msgs,     \* the last two messages the worker put on log_q / progress_q
    n_fatal,       \* number of "Erro fatal" log entries
    fatal,         \* the run-level except clause was entered
    gui,           \* the App: its two buttons, its place in progress_q, a further worker
    page,          \* what each selector wait of the last wait_pdp_ready call met
    waits,         \* the selector waits the last wait_pdp_ready call of this attempt made
    scroll         \* human_scroll: its target, its locals and whether it has returned

vars == <<pc, termos, first_n, nossas_lojas, served, idx, stop_evt, cards, i, selecionados,
          vistos_links, j, attempt, body, reloaded, shot, ok, abandoned,
          todos, parcial, final, n_final, progress_q, last_msgs, n_fatal, fatal, gui,
          page, waits, scroll>>

(***************************************************************************)
(* Bounds of the model.                                                    *)
(***************************************************************************)
MaxTerms == 2      \* longest Term list
MaxCards == 3      \* most result cards the results pages of one run hold together
MaxLinks == MaxCards    \* number of distinct links the marketplace serves
MaxFirstN == MaxCards   \* largest configured cap N

(***************************************************************************)
(* Program constants.                                                      *)
(***************************************************************************)
attempt_max == 3          \* open_pdp(..., attempt_max=3)
NumReadySelectors == 5    \* len(PDP_READY_SELECTORS)

\* Optional values: Python None, float('nan') (what pandas puts in a float
\* column for a missing value) and a number.
None == <<"None">>
NaN == <<"NaN">>
Num(v) == <<"num", v>>
IsNum(x) == Len(x) = 2

\* An artifact is a file that this run has not written yet, or the rows it wrote.
Unwritten == [written |-> FALSE, rows |-> <<>>]
Written(rows) == [written |-> TRUE, rows |-> rows]

\* Terms: "a" and "b" give a non-empty query; "z" is a Term that
\* title_to_user_query maps to the empty query (none exists in raw mode, where
\* the query is the Term itself).
Terms == {"a", "b", "z"}
Links == 1..MaxLinks

RECURSIVE SeqsUpTo(_, _)
SeqsUpTo(S, n) ==
    IF n = 0 THEN {<<>>}
    ELSE LET shorter == SeqsUpTo(S, n - 1)
         IN  shorter \cup {Append(s, x) : s \in {t \in shorter : Len(t) = n - 1}, x \in S}

Range(s) == {s[k] : k \in 1..Len(s)}

IsPrefix(s, t) == Len(s) <= Len(t) /\ SubSeq(t, 1, Len(s)) = s


(***************************************************************************)
(* Messages of the worker.  self.log(msg) puts on log_q, the progress      *)
(* tuples go on progress_q; last_msgs keeps the last two of either kind.   *)
(***************************************************************************)
LogMsg(kind) == <<"log", kind>>
ProgressMsg(cur, tot) == <<"progress", cur, tot>>
Emit(q, m) == IF Len(q) < 2 THEN Append(q, m) ELSE <<q[2], m>>

total == Len(termos)

cfgVars  == <<first_n, nossas_lojas, served>>
loopVars == <<cards, i, selecionados, vistos_links, j, abandoned>>
pdpVars  == <<attempt, body, reloaded, shot, ok>>
outVars  == <<todos, parcial, final, n_final>>
msgVars  == <<progress_q, last_msgs, n_fatal, fatal>>
probeVars == <<page, waits>>

\* human_scroll is not running.
NoScroll == [st |-> "idle", moves |-> 0, move_failed |-> FALSE,
             total_px |-> 0, scrolled |-> 0, step |-> 0, failed |-> FALSE]


(***************************************************************************)
(* Inputs.                                                                 *)
(***************************************************************************)
\* Raw passthrough of a Term that is never empty.
ConsultaRaw(termo) == termo

\* Line 612, as far as the worker uses it: is the query empty?
Consulta(termo) == IF termo = "z" THEN "" ELSE termo

\* The worker treats "a" and "b" alike, so the Term lists of a run are taken up
\* to renaming: "b" occurs only after an "a".
TermLists ==
    {ts \in SeqsUpTo(Terms, MaxTerms) :
        \A k \in 1..Len(ts) : ts[k] = "b" => \E m \in 1..(k - 1) : ts[m] = "a"}

\* A result card is described by what handling it in the scan loop yields:
\* an exception (pointer move or extrair_dados_card raised), no link, or a link.
CardErr == <<"err">>
CardNoLink == <<"nolink">>
CardLink(l) == <<"link", l>>
CardOutcomes == {CardErr, CardNoLink} \cup {CardLink(l) : l \in Links}
HasLink(c) == Len(c) = 2

\* Links are opaque: the worker only compares them.  A results page is taken up
\* to renaming of the links no record carries yet: such a link is the smallest
\* one not used so far.
SetMin(S) == CHOOSE x \in S : \A y \in S : x <= y
LinksOf(cs, k) == {cs[m][2] : m \in {n \in 1..k : HasLink(cs[n])}}
CardLists(known, n) ==
    {cs \in SeqsUpTo(CardOutcomes, n) :
        \A k \in 1..Len(cs) :
            HasLink(cs[k]) =>
                LET seen == known \cup LinksOf(cs, k - 1)
                IN  cs[k][2] \in seen \/ cs[k][2] = SetMin(Links \ seen)}

\* List-page fields of a card, as extrair_dados_card returns them.
Base(l) == [Link |-> l, Patrocinado |-> FALSE, PrecoLista |-> None,
            NotaLista |-> None, NAvalLista |-> None]

\* Outcomes of the four detail extractors on a Ready page.  "raise" is an
\* exception of the page query; only extrair_vendedor_pdp and
\* extrair_avaliacoes_pdp catch it.
Val(x) == <<"val", x>>
Raises == <<"raise">>
Raised(o) == Len(o) = 1
NaoEncontrado == "Nao encontrado"
PrecoPdpOutcomes == {Raises, Val(None), Val(Num(1))}
VendedorOutcomes == {Raises, Val(NaoEncontrado)}
VendidosOutcomes == {Raises, Val("0")}
AvaliacoesOutcomes == {Raises, Val(<<None, None>>)}

\* What the body of the detail page reads as after a navigation.
Unreadable == "unreadable"     \* page.inner_text("body") raises
Bodies == {"captcha", "CAPTCHA", "produto", Unreadable}
Lower(txt) == IF txt = "CAPTCHA" THEN "captcha" ELSE txt
ANTI_BOT_HINTS == {"captcha"}

(***************************************************************************)
(* Detail page helpers.                                                    *)
(***************************************************************************)
\* A hint match that compares the letters as they are.
looks_like_antibot_exact(b) == b # Unreadable /\ b \in ANTI_BOT_HINTS

\* Lines 127-132: the lower-cased body text contains one of the hints.
looks_like_antibot(b) == b # Unreadable /\ Lower(b) \in ANTI_BOT_HINTS

\* A probe plan that looks for attached markers before visible ones.
ProbePlanAttachedFirst(timeout_ms) ==
    <<[sel |-> 1, state |-> "visible", timeout |-> 8000]>>
    \o [k \in 1..NumReadySelectors |-> [sel |-> k, state |-> "attached", timeout |-> 5000]]
    \o [k \in 1..NumReadySelectors |-> [sel |-> k, state |-> "visible", timeout |-> 6000]]

\* The selector waits wait_pdp_ready(page, timeout_ms) makes, in order: the
\* title visible, each selector visible, each selector attached.  Selector 1
\* of PDP_READY_SELECTORS is the title.  timeout_ms is not used by the code.
ProbePlan(timeout_ms) ==
    <<[sel |-> 1, state |-> "visible", timeout |-> 8000]>>
    \o [k \in 1..NumReadySelectors |-> [sel |-> k, state |-> "visible", timeout |-> 6000]]
    \o [k \in 1..NumReadySelectors |-> [sel |-> k, state |-> "attached", timeout |-> 5000]]
NumProbes == Len(ProbePlan(0))

\* res[k] is what the k-th wait of the plan would do: "found", "timeout"
\* (PWTimeout) or "error" (any other exception, which wait_pdp_ready lets out).
RECURSIVE WaitFrom(_, _)
WaitFrom(res, k) ==
    IF k > NumProbes THEN [ready |-> FALSE, raised |-> FALSE, waits |-> NumProbes]
    ELSE IF res[k] = "found" THEN [ready |-> TRUE, raised |-> FALSE, waits |-> k]
    ELSE IF res[k] = "error" THEN [ready |-> FALSE, raised |-> TRUE, waits |-> k]
    ELSE WaitFrom(res, k + 1)
wait_pdp_ready(res) == WaitFrom(res, 1)

\* The runs of the waits that differ for wait_pdp_ready: timeouts up to a first
\* wait that finds its marker or raises, or timeouts throughout.
ProbeRuns ==
    {[k \in 1..NumProbes |-> IF k < n THEN "timeout" ELSE what] :
        n \in 1..NumProbes, what \in {"found", "error"}}
    \cup {[k \in 1..NumProbes |-> "timeout"]}

parse_preco_pdp(o) == o
extrair_vendedor_pdp(o) == IF Raised(o) THEN Val(NaoEncontrado) ELSE o
extrair_vendidos_pdp(o) == o
extrair_avaliacoes_pdp(o) == IF Raised(o) THEN Val(<<None, None>>) ELSE o

\* The record appended to todos (lines 700-720).
EnrichedRecord(termo, base, preco_pdp, vendedor, aval) ==
    [Termo |-> termo,
     Link |-> base.Link,
     Patrocinado |-> base.Patrocinado,
     PrecoNum |-> IF base.PrecoLista # None THEN base.PrecoLista ELSE preco_pdp,
     Vendedor |-> vendedor,
     Nota |-> IF base.NotaLista # None THEN base.NotaLista ELSE aval[1],
     NAval |-> IF base.NAvalLista # None THEN base.NAvalLista ELSE aval[2]]

(***************************************************************************)
(* Consolidation at run end (lines 745-759) and                            *)
(* comparar_precos_por_consulta (lines 534-553).                           *)
(***************************************************************************)
\* str.upper() on the seller and store names of the model.
Upper(name) ==
    CASE name = "loja" -> "LOJA"
      [] name = "Loja" -> "LOJA"
      [] name = "x" -> "X"
      [] OTHER -> name

\* pd.DataFrame(todos): a column in which some row holds a number is a float
\* column, and a missing value in it is NaN; a column of None only keeps None.
FloatColumn(buf, col) == \E k \in 1..Len(buf) : IsNum(buf[k][col])
Cell(buf, col, v) == IF v = None /\ FloatColumn(buf, col) THEN NaN ELSE v
DataFrame(buf) ==
    [k \in 1..Len(buf) |->
        [buf[k] EXCEPT !.PrecoNum = Cell(buf, "PrecoNum", @),
                       !.Nota = Cell(buf, "Nota", @),
                       !.NAval = Cell(buf, "NAval", @)]]

\* Order of the Term strings and of the "Sim"/"Não" sponsorship strings.
TermRank(t) == CASE t = "a" -> 1 [] t = "b" -> 2 [] OTHER -> 3
PatrocinadoRank(p) == IF p THEN 2 ELSE 1

\* An ascending key with missing values last.
AscBefore(x, y) == IsNum(x) /\ (~IsNum(y) \/ x[2] < y[2])

\* Descending key with missing values last: does x sort strictly before y?
DescBefore(x, y) == IsNum(x) /\ (~IsNum(y) \/ x[2] > y[2])
SameKey(x, y) == (IsNum(x) /\ IsNum(y) /\ x[2] = y[2]) \/ (~IsNum(x) /\ ~IsNum(y))

\* sort_values(by=[Termo original, Patrocinado, Nota (ord), Nº avaliações (ord)],
\*             ascending=[True, True, False, False]): r sorts strictly before q.
SortsBefore(r, q) ==
    \/ TermRank(r.Termo) < TermRank(q.Termo)
    \/ /\ r.Termo = q.Termo
       /\ \/ PatrocinadoRank(r.Patrocinado) < PatrocinadoRank(q.Patrocinado)
          \/ /\ r.Patrocinado = q.Patrocinado
             /\ \/ DescBefore(r.Nota, q.Nota)
                \/ /\ SameKey(r.Nota, q.Nota)
                   /\ DescBefore(r.NAval, q.NAval)

\* An insertion that puts a row before the rows with the same keys.
RECURSIVE InsertRowFirst(_, _)
InsertRowFirst(sorted, r) ==
    IF sorted = <<>> THEN <<r>>
    ELSE LET last == sorted[Len(sorted)]
         IN  IF ~SortsBefore(last, r)
             THEN Append(InsertRowFirst(SubSeq(sorted, 1, Len(sorted) - 1), r), last)
             ELSE Append(sorted, r)

\* The sort on several keys is stable: a row goes after the rows it does not
\* sort strictly before.
RECURSIVE InsertRow(_, _)
InsertRow(sorted, r) ==
    IF sorted = <<>> THEN <<r>>
    ELSE LET last == sorted[Len(sorted)]
         IN  IF SortsBefore(r, last)
             THEN Append(InsertRow(SubSeq(sorted, 1, Len(sorted) - 1), r), last)
             ELSE Append(sorted, r)
RECURSIVE SortValues(_)
SortValues(df) ==
    IF df = <<>> THEN <<>>
    ELSE InsertRow(SortValues(SubSeq(df, 1, Len(df) - 1)), df[Len(df)])

\* df["Termo original"].unique(): the Terms in order of first appearance.
RECURSIVE Unique(_)
Unique(col) ==
    IF col = <<>> THEN <<>>
    ELSE LET init == Unique(SubSeq(col, 1, Len(col) - 1))
             x == col[Len(col)]
         IN  IF x \in Range(init) THEN init ELSE Append(init, x)

\* df[df["Termo original"] == termo].to_dict("records")
Bloco(df, termo) == LET Is(r) == r.Termo = termo IN SelectSeq(df, Is)

\* Python's x < y on floats: false when either side is NaN.
PyLess(x, y) == IsNum(x) /\ IsNum(y) /\ x[2] < y[2]

\* Python's min(list): the first element, replaced by each later one that is
\* less than it.
RECURSIVE PyMin(_)
PyMin(xs) ==
    IF Len(xs) = 1 THEN xs[1]
    ELSE LET m == PyMin(SubSeq(xs, 1, Len(xs) - 1))
             x == xs[Len(xs)]
         IN  IF PyLess(x, m) THEN x ELSE m

\* isinstance(v, (int, float)) and v is not None: true of NaN as well.
IsIntOrFloat(v) == v # None

Vazio == <<"">>     \* the empty marker "" in the operator-minimum column

comparar_precos_por_consulta(registros, lojas) ==
    LET nossas_upper == {Upper(st) : st \in lojas}
        IsNosso(r) == Upper(r.Vendedor) \in nossas_upper
        nossos == SelectSeq(registros, IsNosso)
        HasPreco(r) == IsIntOrFloat(r.PrecoNum)
        nossos_com_preco == SelectSeq(nossos, HasPreco)
        nossos_precos == [k \in 1..Len(nossos_com_preco) |-> nossos_com_preco[k].PrecoNum]
        nosso_preco == IF nossos_precos # <<>> THEN PyMin(nossos_precos) ELSE None
        Tag(r) ==
            IF nosso_preco # None /\ r.PrecoNum # None /\ ~IsNosso(r)
            THEN [Rec |-> r, ENossaLoja |-> "Nao",
                  Concorrente |-> IF PyLess(r.PrecoNum, nosso_preco) THEN "Sim" ELSE "Nao",
                  NossoMenor |-> nosso_preco]
            ELSE [Rec |-> r, ENossaLoja |-> IF IsNosso(r) THEN "Sim" ELSE "Nao",
                  Concorrente |-> "",
                  NossoMenor |-> IF nosso_preco # None THEN nosso_preco ELSE Vazio]
    IN  [k \in 1..Len(registros) |-> Tag(registros[k])]

\* Lines 745-759: frame, sort, then compare block by block.
RECURSIVE CompareBlocks(_, _, _)
CompareBlocks(df, ts, lojas) ==
    IF ts = <<>> THEN <<>>
    ELSE comparar_precos_por_consulta(Bloco(df, ts[1]), lojas)
         \o CompareBlocks(df, Tail(ts), lojas)

\* A report that compares the block of the first Term only.
FinalReportFirstTerm(buf, lojas) ==
    LET df == SortValues(DataFrame(buf))
        col == [k \in 1..Len(df) |-> df[k].Termo]
    IN  CompareBlocks(df, SubSeq(Unique(col), 1, 1), lojas)

FinalReport(buf, lojas) ==
    LET df == SortValues(DataFrame(buf))
        col == [k \in 1..Len(df) |-> df[k].Termo]
    IN  CompareBlocks(df, Unique(col), lojas)

(***************************************************************************)
(* The App (lines 779-956) as far as it starts, stops and watches workers. *)
(***************************************************************************)
\* The App while its first worker runs, right after _start, and the App as
\* __init__ leaves it (lines 846-848: Start enabled, Stop disabled).
\*   other       a worker started by a later Start: "none", "alive", "exited"
\*   other_tuple that worker has put its closing tuple (total, total) on the queue
\*   polled      how many tuples of progress_q _poll_queues has taken
\*   stop_req    _stop has set the flag for the first worker while it was alive
GuiRunning == [btn_start |-> FALSE, btn_stop |-> TRUE, polled |-> 0,
               other |-> "none", other_tuple |-> FALSE, stop_req |-> FALSE]
GuiIdle == [GuiRunning EXCEPT !.btn_start = TRUE, !.btn_stop = FALSE]

\* App._toggle_controls (lines 885-887).
_toggle_controls(running) ==
    [gui EXCEPT !.btn_start = ~running, !.btn_stop = running]

\* is_alive() of the first worker, and of self.worker, the one started last.
TrackedAlive == pc \notin {"idle", "done"}
LatestAlive == IF gui.other # "none" THEN gui.other = "alive" ELSE TrackedAlive

(***************************************************************************)
(* ScraperThread.run                                                       *)
(***************************************************************************)
Init ==
    /\ pc = "load"
    /\ termos = <<>>
    /\ first_n \in 1..MaxFirstN
    /\ nossas_lojas = {"Loja"}
    /\ served = 0
    /\ idx = 0
    /\ stop_evt = FALSE
    /\ cards = <<>> /\ i = 0 /\ selecionados = <<>> /\ vistos_links = {}
    /\ j = 0 /\ abandoned = FALSE
    /\ attempt = 0 /\ body = "" /\ reloaded = FALSE
    /\ shot = "none" /\ ok = FALSE
    /\ todos = <<>> /\ parcial = Unwritten /\ final = Unwritten /\ n_final = 0
    /\ progress_q = <<>> /\ last_msgs = <<>> /\ n_fatal = 0 /\ fatal = FALSE
    /\ gui = GuiRunning
    /\ page = <<>> /\ waits = <<>> /\ scroll = NoScroll

\* self.log(kind): one entry on log_q.
Logged(kind) == last_msgs' = Emit(last_msgs, LogMsg(kind))

\* A run-level handler that reports the progress tuple before the log entry.
RunRaiseProgressFirst ==
    /\ pc' = "done"
    /\ fatal' = TRUE
    /\ n_fatal' = n_fatal + 1
    /\ last_msgs' = Emit(Emit(last_msgs, ProgressMsg(0, 0)), LogMsg("fatal"))
    /\ progress_q' = Append(progress_q, <<0, 0>>)
    /\ UNCHANGED <<gui, scroll, probeVars, termos, cfgVars, idx, stop_evt, loopVars, pdpVars, outVars>>

\* The run-level handler (lines 773-775): an exception escaped to run().
RunRaise ==
    /\ pc' = "done"
    /\ fatal' = TRUE
    /\ n_fatal' = n_fatal + 1
    /\ last_msgs' = Emit(Emit(last_msgs, LogMsg("fatal")), ProgressMsg(0, 0))
    /\ progress_q' = Append(progress_q, <<0, 0>>)
    /\ UNCHANGED <<gui, scroll, probeVars, termos, cfgVars, idx, stop_evt, loopVars, pdpVars, outVars>>

\* Lines 586-591: load_terms_from_excel; an empty list ends the run.
Load ==
    /\ pc = "load"
    /\ \/ RunRaise
       \/ \E ts \in TermLists :
            /\ termos' = ts
            /\ IF Len(ts) = 0
               THEN /\ pc' = "done"
                    /\ last_msgs' = Emit(Emit(last_msgs, LogMsg("sem termos")),
                                         ProgressMsg(0, 0))
                    /\ progress_q' = Append(progress_q, <<0, 0>>)
                    /\ UNCHANGED idx
               ELSE /\ pc' = "launch"
                    /\ UNCHANGED <<last_msgs, progress_q, idx>>
            /\ UNCHANGED <<gui, scroll, probeVars, cfgVars, stop_evt, loopVars, pdpVars, outVars, n_fatal, fatal>>

\* Lines 593-605: output directory, browser session, the two pages.
Launch ==
    /\ pc = "launch"
    /\ \/ RunRaise
       \/ /\ pc' = "term_top"
          /\ idx' = 1
          /\ Logged("ua")
          /\ UNCHANGED <<gui, scroll, probeVars, termos, cfgVars, stop_evt, loopVars, pdpVars, outVars,
                         progress_q, n_fatal, fatal>>

\* The condition of the cancellation check at the top of the Term loop (608).
TermLoopStops == stop_evt

\* Lines 607-620: top of the Term loop.
TermTop ==
    /\ pc = "term_top"
    /\ IF idx > total THEN
            /\ pc' = "close"
            /\ UNCHANGED last_msgs
       ELSE IF TermLoopStops THEN
            /\ pc' = "close"
            /\ Logged("interrompido")
       ELSE IF Consulta(termos[idx]) = "" THEN
            /\ pc' = "term_end"
            /\ Logged("termo vazio")
       ELSE /\ pc' = "search"
            /\ Logged("url")
    /\ UNCHANGED <<gui, scroll, probeVars, termos, cfgVars, idx, stop_evt, loopVars, pdpVars, outVars,
                   progress_q, n_fatal, fatal>>

\* Lines 622-629: search navigation; only PWTimeout is caught.
Search ==
    /\ pc = "search"
    /\ \/ RunRaise
       \/ /\ \/ pc' = "get_cards" /\ UNCHANGED last_msgs
             \/ pc' = "term_end" /\ Logged("timeout na busca")
          /\ UNCHANGED <<gui, scroll, probeVars, termos, cfgVars, idx, stop_evt, loopVars, pdpVars, outVars,
                         progress_q, n_fatal, fatal>>

\* Lines 631-641: humanized pauses (they swallow their failures), get_cards.
GetCards ==
    /\ pc = "get_cards"
    /\ \/ RunRaise
       \/ \E cs \in CardLists({r.Link : r \in Range(todos)}, MaxCards - served) :
            /\ Logged("cards encontrados")
            /\ served' = served + Len(cs)
            /\ IF Len(cs) = 0
               THEN pc' = "term_end" /\ UNCHANGED <<cards, i>>
               ELSE pc' = "scan" /\ cards' = cs /\ i' = 1
            /\ UNCHANGED <<gui, scroll, probeVars, termos, first_n, nossas_lojas, idx, stop_evt, selecionados, vistos_links,
                           j, abandoned, pdpVars, outVars, progress_q, n_fatal, fatal>>

\* The condition of the cancellation check at the top of the card loop (646).
CardLoopStops == stop_evt

\* A cap test that lets one candidate more through.
CapReachedLate(sel) == Len(sel) > first_n

\* The cap test of line 668.
CapReached(sel) == Len(sel) >= first_n

\* The dedup test of line 664.
SkipCard(c) == ~HasLink(c) \/ c[2] \in vistos_links

\* Lines 645-671: one iteration of the card loop.
ScanCard ==
    /\ pc = "scan"
    /\ IF i > Len(cards) \/ CardLoopStops THEN
            /\ pc' = "scan_end"
            /\ UNCHANGED <<i, selecionados, vistos_links, last_msgs>>
       ELSE IF cards[i] = CardErr THEN
            /\ Logged("erro no card")
            /\ i' = i + 1
            /\ UNCHANGED <<pc, selecionados, vistos_links>>
       ELSE IF SkipCard(cards[i]) THEN
            /\ i' = i + 1
            /\ UNCHANGED <<pc, selecionados, vistos_links, last_msgs>>
       ELSE /\ vistos_links' = vistos_links \cup {cards[i][2]}
            /\ selecionados' = Append(selecionados, Base(cards[i][2]))
            /\ i' = i + 1
            /\ pc' = IF CapReached(selecionados') THEN "scan_end" ELSE "scan"
            /\ UNCHANGED last_msgs
    /\ UNCHANGED <<gui, scroll, probeVars, termos, cfgVars, idx, stop_evt, cards, j, abandoned, pdpVars,
                   outVars, progress_q, n_fatal, fatal>>

\* Lines 673-677: nothing selected skips the Term.
ScanEnd ==
    /\ pc = "scan_end"
    /\ IF selecionados = <<>>
       THEN pc' = "term_end" /\ UNCHANGED <<last_msgs, j>>
       ELSE pc' = "cand_top" /\ Logged("processando") /\ j' = 1
    /\ cards' = <<>> /\ i' = 0
    /\ UNCHANGED <<gui, scroll, probeVars, termos, cfgVars, idx, stop_evt, selecionados, vistos_links,
                   abandoned, pdpVars, outVars, progress_q, n_fatal, fatal>>

(***************************************************************************)
(* The candidate loop and open_pdp                                         *)
(***************************************************************************)
\* A candidate loop without its cancellation check.
CandLoopNeverStops == FALSE

\* The condition of the cancellation check at the top of the candidate loop (681).
CandLoopStops == stop_evt

\* Lines 680-684: top of the candidate loop; open_pdp is entered at attempt 1.
CandTop ==
    /\ pc = "cand_top"
    /\ IF j > Len(selecionados) \/ CandLoopStops THEN
            /\ pc' = "checkpoint"
            /\ UNCHANGED <<last_msgs, pdpVars>>
       ELSE /\ pc' = "pdp_goto"
            /\ Logged("candidato")
            /\ attempt' = 1
            /\ body' = "" /\ reloaded' = FALSE /\ shot' = "none"
            /\ ok' = FALSE
    /\ UNCHANGED <<gui, scroll, probeVars, termos, cfgVars, idx, stop_evt, loopVars, outVars,
                   progress_q, n_fatal, fatal>>

\* Is another attempt made after attempt a has failed?  (range(1, attempt_max + 1))
HasNextAttempt(a) == a < attempt_max

\* End of a failed attempt: the next one starts, or open_pdp returns False (201).
NextAttempt ==
    /\ body' = "" /\ reloaded' = FALSE
    /\ page' = <<>> /\ waits' = <<>>
    /\ IF HasNextAttempt(attempt)
       THEN attempt' = attempt + 1 /\ pc' = "pdp_goto" /\ ok' = ok
       ELSE attempt' = attempt /\ pc' = "pdp_ret" /\ ok' = FALSE

\* Lines 198-200: any exception inside the attempt is logged; no screenshot.
AttemptError ==
    /\ Logged("erro ao abrir PDP")
    /\ NextAttempt
    /\ UNCHANGED shot

\* Line 160: first navigation of the attempt (wait_until="load").
PdpGoto ==
    /\ pc = "pdp_goto"
    /\ \/ \E b \in Bodies :
            /\ pc' = "pdp_antibot" /\ body' = b
            /\ UNCHANGED <<attempt, reloaded, shot, ok, last_msgs, probeVars>>
       \/ /\ pc' = "pdp_goto2"                    \* PWTimeout
          /\ UNCHANGED <<pdpVars, last_msgs, probeVars>>
       \/ AttemptError                            \* any other exception
    /\ UNCHANGED <<gui, scroll, termos, cfgVars, idx, stop_evt, loopVars, outVars,
                   progress_q, n_fatal, fatal>>

\* A second navigation whose timeout is swallowed: the attempt goes on.
PdpGoto2Swallowed ==
    /\ pc = "pdp_goto2"
    /\ \/ \E b \in Bodies :
            /\ pc' = "pdp_antibot" /\ body' = b
            /\ UNCHANGED <<attempt, reloaded, shot, ok, last_msgs>>
       \/ /\ pc' = "pdp_antibot"
          /\ UNCHANGED <<pdpVars, last_msgs>>
    /\ UNCHANGED <<gui, scroll, probeVars, termos, cfgVars, idx, stop_evt, loopVars, outVars,
                   progress_q, n_fatal, fatal>>

\* Line 162: second navigation (wait_until="networkidle"); nothing is caught here.
PdpGoto2 ==
    /\ pc = "pdp_goto2"
    /\ \/ \E b \in Bodies :
            /\ pc' = "pdp_antibot" /\ body' = b
            /\ UNCHANGED <<attempt, reloaded, shot, ok, last_msgs, probeVars>>
       \/ AttemptError                            \* PWTimeout or any other exception
    /\ UNCHANGED <<gui, scroll, termos, cfgVars, idx, stop_evt, loopVars, outVars,
                   progress_q, n_fatal, fatal>>

\* Lines 164-178: cookie prompt and scroll nudges (failures swallowed), then the
\* anti-automation check; the screenshot may fail.
PdpAntibot ==
    /\ pc = "pdp_antibot"
    /\ IF looks_like_antibot(body) THEN
            /\ \E sh \in {"ok", "fail"} : shot' = sh
            /\ Logged("anti-bot")
            /\ pc' = "pdp_ret"
            /\ ok' = FALSE
            /\ UNCHANGED <<attempt, body, reloaded>>
       ELSE /\ pc' = "pdp_ready"
            /\ body' = ""
            /\ UNCHANGED <<attempt, reloaded, shot, ok, last_msgs>>
    /\ UNCHANGED <<gui, scroll, probeVars, termos, cfgVars, idx, stop_evt, loopVars, outVars,
                   progress_q, n_fatal, fatal>>

\* The timeout_ms argument of the two calls of wait_pdp_ready (lines 180, 187).
ReadyTimeoutMs(after_reload) == IF after_reload THEN 12000 ELSE 25000

\* The waits a call of wait_pdp_ready made when it left after its k-th wait.
WaitsMade(timeout_ms, k) == SubSeq(ProbePlan(timeout_ms), 1, k)

\* Lines 180-196: wait_pdp_ready as called at 180 and, after the reload, at 187.
\* Ready returns True.  Not ready: reload if this attempt has not reloaded yet,
\* otherwise screenshot (may fail), log, next attempt.
PdpReady ==
    /\ pc = "pdp_ready"
    /\ \E res \in ProbeRuns :
          LET r == wait_pdp_ready(res)
              made == WaitsMade(ReadyTimeoutMs(reloaded), r.waits)
          IN  IF r.raised THEN AttemptError
              ELSE IF r.ready THEN
                   /\ pc' = "pdp_ret" /\ ok' = TRUE
                   /\ page' = res /\ waits' = made
                   /\ UNCHANGED <<attempt, body, reloaded, shot, last_msgs>>
              ELSE IF ~reloaded THEN
                   /\ pc' = "pdp_reload"
                   /\ page' = res /\ waits' = made
                   /\ UNCHANGED <<attempt, body, reloaded, shot, ok, last_msgs>>
              ELSE /\ \E sh \in {"ok", "fail"} : shot' = sh
                   /\ Logged("PDP nao ficou pronta")
                   /\ NextAttempt
    /\ UNCHANGED <<gui, scroll, termos, cfgVars, idx, stop_evt, loopVars, outVars,
                   progress_q, n_fatal, fatal>>

\* A reload that is not remembered by the attempt.
PdpReloadForgotten ==
    /\ pc = "pdp_reload"
    /\ pc' = "pdp_ready"
    /\ UNCHANGED <<attempt, body, reloaded, shot, ok, last_msgs>>
    /\ UNCHANGED <<gui, scroll, probeVars, termos, cfgVars, idx, stop_evt, loopVars, outVars,
                   progress_q, n_fatal, fatal>>

\* Lines 183-186: the reload; its PWTimeout is ignored.
PdpReload ==
    /\ pc = "pdp_reload"
    /\ \/ /\ pc' = "pdp_ready" /\ reloaded' = TRUE       \* loaded, or PWTimeout
          /\ UNCHANGED <<attempt, body, shot, ok, last_msgs, probeVars>>
       \/ AttemptError
    /\ UNCHANGED <<gui, scroll, termos, cfgVars, idx, stop_evt, loopVars, outVars,
                   progress_q, n_fatal, fatal>>

\* Lines 684-687: open_pdp has returned.
PdpRet ==
    /\ pc = "pdp_ret"
    /\ IF ok
       THEN /\ pc' = "extract"
            /\ UNCHANGED <<j, abandoned, last_msgs>>
       ELSE /\ pc' = "cand_top"
            /\ Logged("falha ao abrir PDP")
            /\ j' = j + 1
            /\ abandoned' = TRUE
    /\ attempt' = 0 /\ body' = "" /\ reloaded' = FALSE
    /\ shot' = "none" /\ ok' = FALSE
    /\ page' = <<>> /\ waits' = <<>>
    /\ UNCHANGED <<gui, scroll, termos, cfgVars, idx, stop_evt, cards, i, selecionados, vistos_links,
                   outVars, progress_q, n_fatal, fatal>>

\* Lines 689-722: detail extraction on a Ready page and the append to todos.
\* An exception leaving an extractor is caught at line 730, after the checkpoint.
Extract ==
    /\ pc = "extract"
    /\ \E po \in PrecoPdpOutcomes, vo \in VendedorOutcomes,
          so \in VendidosOutcomes, ao \in AvaliacoesOutcomes :
          LET preco == parse_preco_pdp(po)
              vendedor == extrair_vendedor_pdp(vo)
              vendidos == extrair_vendidos_pdp(so)
              aval == extrair_avaliacoes_pdp(ao)
          IN  IF Raised(preco) \/ Raised(vendidos) \/ Raised(vendedor) \/ Raised(aval)
              THEN /\ pc' = "term_end"
                   /\ Logged("erro ao processar PDPs")
                   /\ UNCHANGED <<todos, j>>
              ELSE /\ pc' = "cand_top"
                   /\ todos' = Append(todos,
                          EnrichedRecord(termos[idx], selecionados[j], preco[2],
                                         vendedor[2], aval[2]))
                   /\ j' = j + 1
                   /\ UNCHANGED last_msgs
    /\ UNCHANGED <<gui, scroll, probeVars, termos, cfgVars, idx, stop_evt, cards, i, selecionados, vistos_links,
                   abandoned, pdpVars, parcial, final, n_final, progress_q, n_fatal, fatal>>

\* A checkpoint that writes only the records of the current Term.
CheckpointCurrentTerm ==
    /\ pc = "checkpoint"
    /\ IF todos # <<>>
       THEN /\ parcial' = Written(SelectSeq(todos, LAMBDA r : r.Termo = termos[idx]))
            /\ Logged("parcial salva")
       ELSE UNCHANGED <<parcial, last_msgs>>
    /\ pc' = "term_end"
    /\ UNCHANGED <<gui, scroll, probeVars, termos, cfgVars, idx, stop_evt, loopVars, pdpVars, todos, final,
                   n_final, progress_q, n_fatal, fatal>>

\* Lines 724-728: the partial artifact is rewritten from the whole buffer.
Checkpoint ==
    /\ pc = "checkpoint"
    /\ IF todos # <<>>
       THEN parcial' = Written(todos) /\ Logged("parcial salva")
       ELSE UNCHANGED <<parcial, last_msgs>>
    /\ pc' = "term_end"
    /\ UNCHANGED <<gui, scroll, probeVars, termos, cfgVars, idx, stop_evt, loopVars, pdpVars, todos, final,
                   n_final, progress_q, n_fatal, fatal>>

\* A Term that ends without its progress tuple.
TermEndSilent ==
    /\ pc = "term_end"
    /\ idx' = idx + 1
    /\ pc' = "term_top"
    /\ cards' = <<>> /\ i' = 0 /\ selecionados' = <<>> /\ vistos_links' = {}
    /\ j' = 0 /\ abandoned' = FALSE
    /\ UNCHANGED <<gui, scroll, probeVars, termos, cfgVars, stop_evt, pdpVars, outVars, msgVars>>

\* Lines 615, 628, 640, 674 and 733: the progress tuple of the Term, then the
\* next Term.
TermEnd ==
    /\ pc = "term_end"
    /\ progress_q' = Append(progress_q, <<idx, total>>)
    /\ last_msgs' = Emit(last_msgs, ProgressMsg(idx, total))
    /\ idx' = idx + 1
    /\ pc' = "term_top"
    /\ cards' = <<>> /\ i' = 0 /\ selecionados' = <<>> /\ vistos_links' = {}
    /\ j' = 0 /\ abandoned' = FALSE
    /\ UNCHANGED <<gui, scroll, probeVars, termos, cfgVars, stop_evt, pdpVars, outVars, n_fatal, fatal>>

\* Line 737: browser.close().
Close ==
    /\ pc = "close"
    /\ \/ RunRaise
       \/ /\ pc' = "finish"
          /\ UNCHANGED <<gui, scroll, probeVars, termos, cfgVars, idx, stop_evt, loopVars, pdpVars, outVars,
                         msgVars>>

\* Lines 739-771: nothing collected, or sort, compare and write the final artifact.
Finish ==
    /\ pc = "finish"
    /\ IF todos = <<>> THEN
            /\ pc' = "done"
            /\ last_msgs' = Emit(Emit(last_msgs, LogMsg("nenhum resultado")),
                                 ProgressMsg(total, total))
            /\ progress_q' = Append(progress_q, <<total, total>>)
            /\ UNCHANGED <<gui, scroll, probeVars, termos, cfgVars, idx, stop_evt, loopVars, pdpVars, outVars,
                           n_fatal, fatal>>
       ELSE \/ RunRaise
            \/ /\ pc' = "done"
               /\ final' = Written(FinalReport(todos, nossas_lojas))
               /\ n_final' = n_final + 1
               /\ last_msgs' = Emit(Emit(last_msgs, LogMsg("finalizado")),
                                    ProgressMsg(total, total))
               /\ progress_q' = Append(progress_q, <<total, total>>)
               /\ UNCHANGED <<gui, scroll, probeVars, termos, cfgVars, idx, stop_evt, loopVars, pdpVars, todos,
                              parcial, n_fatal, fatal>>

\* App._stop (lines 921-925), bound to the Stop button: a live worker is asked
\* to stop; the controls go back to idle at once in either case.
Stop ==
    /\ gui.btn_stop
    /\ stop_evt' = (stop_evt \/ LatestAlive)
    /\ gui' = [_toggle_controls(FALSE) EXCEPT
                  !.stop_req = @ \/ (gui.other = "none" /\ TrackedAlive)]
    /\ UNCHANGED <<scroll, probeVars, pc, termos, cfgVars, idx, loopVars, pdpVars, outVars, msgVars>>

Next ==
    \/ Load \/ Launch \/ TermTop \/ Search \/ GetCards \/ ScanCard \/ ScanEnd
    \/ CandTop \/ PdpGoto \/ PdpGoto2 \/ PdpAntibot \/ PdpReady \/ PdpReload \/ PdpRet
    \/ Extract \/ Checkpoint \/ TermEnd \/ Close \/ Finish \/ Stop

Spec == Init /\ [][Next]_vars

(***************************************************************************)
(* Properties of the worker.                                               *)
(***************************************************************************)
\* The positions of the worker inside the candidate loop of a Term (679-722).
CandLoopPcs == {"cand_top", "pdp_goto", "pdp_goto2", "pdp_antibot", "pdp_ready",
                "pdp_reload", "pdp_ret", "extract"}

\* What identifies a record of the buffer in an artifact.
RowId(r) == <<r.Termo, r.Link, r.Vendedor>>
Count(x, s) == Cardinality({k \in 1..Len(s) : s[k] = x})
SameBag(s, t) ==
    /\ Len(s) = Len(t)
    /\ \A x \in Range(s) \cup Range(t) : Count(x, s) = Count(x, t)
BufferIds == [k \in 1..Len(todos) |-> RowId(todos[k])]
ReportIds(art) == [k \in 1..Len(art.rows) |-> RowId(art.rows[k].Rec)]

\* C1: once the cancellation flag is set, a candidate whose loop-top check
\* comes afterwards is not visited, no later Term is started, every record
\* already in the buffer stays in it, the checkpoint that follows the
\* candidate loop writes the whole buffer, and the final report written at
\* the end of the run holds exactly the records of the buffer.
C1_CancelKeepsWork ==
    [][ stop_evt =>
          /\ pc = "cand_top" => pc' # "pdp_goto"
          /\ pc = "term_top" => pc' \notin {"search", "term_end"}
          /\ IsPrefix(todos, todos')
          /\ (pc = "checkpoint" /\ pc' # pc /\ todos # <<>>) => parcial' = Written(todos)
          /\ (pc = "finish" /\ pc' # pc /\ todos # <<>> /\ ~fatal') =>
                 /\ final'.written
                 /\ SameBag(ReportIds(final'), BufferIds)
      ]_vars

\* C1 witness: the flag was set inside a candidate loop that still had a
\* candidate to visit and a later Term to start, with records collected.
C1_Witness ==
    /\ stop_evt
    /\ pc = "checkpoint"
    /\ j <= Len(selecionados)
    /\ idx < total
    /\ todos # <<>>

\* C2: at the point where a Term's progress tuple is emitted, a non-empty
\* buffer is exactly what the partial artifact holds.
C2_CheckpointAfterTerm ==
    (pc = "term_end" /\ todos # <<>>) => parcial = Written(todos)

\* The number of candidates of the current Term that open_pdp was called for.
Visited == IF pc = "cand_top" THEN j - 1 ELSE j

\* C3: open_pdp makes at most 3 attempts; a candidate that never gets Ready
\* is abandoned with the buffer unchanged and without a fatal error, and
\* after an abandonment the candidate loop is left only when it is cancelled
\* or every selected candidate has been visited.
C3_AttemptCapAndAbandon ==
    /\ [](attempt <= attempt_max)
    /\ [][ /\ (pc = "pdp_ret" /\ ~ok /\ pc' # pc) =>
                (pc' = "cand_top" /\ j' = j + 1 /\ todos' = todos /\ ~fatal')
           /\ (abandoned /\ pc \in CandLoopPcs /\ pc' \notin CandLoopPcs) =>
                (stop_evt \/ Visited = Len(selecionados))
         ]_vars

\* The page bodies that contain an anti-automation hint, in any letter case.
HintBodies == {"captcha", "CAPTCHA"}

\* C4: when the body of the page matches an anti-automation hint, the visit
\* ends as not-ready in the same attempt, without reload, readiness probe or
\* further attempt, whatever the screenshot does; the candidate is then
\* skipped.
C4_AntibotNotRetried ==
    [][ /\ (pc = "pdp_antibot" /\ body \in HintBodies /\ pc' # pc) =>
             (pc' = "pdp_ret" /\ ~ok' /\ attempt' = attempt /\ reloaded' = reloaded)
        /\ (pc = "pdp_ret" /\ body \in HintBodies /\ pc' # pc) =>
             (pc' = "cand_top" /\ j' = j + 1 /\ todos' = todos)
      ]_vars

\* C4 witness: detection on an attempt that is not the last one, with a
\* failed screenshot.
C4_Witness ==
    /\ pc = "pdp_ret"
    /\ body = "CAPTCHA"
    /\ shot = "fail"
    /\ ~ok
    /\ attempt < attempt_max
    /\ j < Len(selecionados)

\* C5: on a Ready page, whatever single field fails to be extracted, a record
\* for the candidate is appended and the candidate loop goes on.
C5_FieldFailureStaysLocal ==
    [][ (pc = "extract" /\ pc' # pc) =>
           (pc' = "cand_top" /\ Len(todos') = Len(todos) + 1 /\ j' = j + 1) ]_vars

\* C6: a fatal abort emits one fatal log entry and then the progress tuple
\* (0, 0) as the last two messages, no final artifact is written, and the
\* partial artifact is not written by the abort or after it.
C6_FatalAbort ==
    /\ [](fatal => /\ pc = "done"
                   /\ n_fatal = 1
                   /\ last_msgs = <<LogMsg("fatal"), ProgressMsg(0, 0)>>
                   /\ final = Unwritten)
    /\ [][ fatal' => (parcial' = parcial /\ final' = final) ]_vars
    /\ [][ fatal => UNCHANGED <<last_msgs, progress_q, parcial, final>> ]_vars

\* C6 witness: a fatal abort after a checkpoint.
C6_Witness == fatal /\ parcial.written /\ parcial.rows # <<>>

\* The links of the result cards that carry one, in page order.
CardLinks(cs) ==
    LET linked == SelectSeq(cs, HasLink)
    IN  [k \in 1..Len(linked) |-> linked[k][2]]

\* A sequence with every element kept at its first occurrence only.
RECURSIVE FirstOccurrences(_)
FirstOccurrences(s) ==
    IF s = <<>> THEN <<>>
    ELSE LET front == FirstOccurrences(SubSeq(s, 1, Len(s) - 1))
             last == s[Len(s)]
         IN  IF last \in Range(front) THEN front ELSE Append(front, last)

\* The first n elements of a sequence.
FirstN(s, n) == SubSeq(s, 1, IF n < Len(s) THEN n ELSE Len(s))

SelectedLinks == [k \in 1..Len(selecionados) |-> selecionados[k].Link]

\* C7 as stated: when the card scan of a Term is over, the selected
\* candidates are the first N distinct links of the cards in page order, and
\* removing duplicates from the selection changes nothing.
C7_DedupAndCap ==
    pc = "scan_end" =>
        /\ SelectedLinks = FirstN(FirstOccurrences(CardLinks(cards)), first_n)
        /\ FirstOccurrences(SelectedLinks) = SelectedLinks

\* C7 amended: a card scan that ran to the end of the cards or to the cap
\* selects the first N distinct links in page order; a scan that stopped
\* earlier was cancelled and has selected a prefix of them; in both cases no
\* link is selected twice and at most N candidates are selected.
C7_DedupAndCapUnlessCancelled ==
    pc = "scan_end" =>
        LET expected == FirstN(FirstOccurrences(CardLinks(cards)), first_n)
        IN  /\ IsPrefix(SelectedLinks, expected)
            /\ (SelectedLinks # expected => stop_evt)
            /\ FirstOccurrences(SelectedLinks) = SelectedLinks
            /\ Len(SelectedLinks) <= first_n

\* C7 witness: a scan over cards with a repeated link that ran, without being
\* cancelled, until the cap of two or more candidates was reached.
C7_Witness ==
    /\ pc = "scan_end"
    /\ ~stop_evt
    /\ first_n > 1
    /\ Len(selecionados) = first_n
    /\ Len(CardLinks(cards)) > Len(FirstOccurrences(CardLinks(cards)))

\* C8: no two records of the buffer, and no two rows of the final report,
\* carry the same Term and the same link.
C8_LinkUniquePerTerm ==
    /\ \A p, q \in 1..Len(todos) :
          (p # q /\ todos[p].Termo = todos[q].Termo) => todos[p].Link # todos[q].Link
    /\ \A p, q \in 1..Len(final.rows) :
          (p # q /\ final.rows[p].Rec.Termo = final.rows[q].Rec.Termo)
              => final.rows[p].Rec.Link # final.rows[q].Rec.Link

(***************************************************************************)
(* The consolidation on its own: the worker stands at line 739 with a     *)
(* buffer collected over the Terms "a" and "b".                            *)
(***************************************************************************)
MaxRecs == 3       \* longest buffer handed to the consolidation

CmpTerms == {"a", "b"}
CmpSellers == {"LOJA", "loja", "x"}
CmpPrices == {None, Num(1), Num(2)}
CmpLojas == {{"Loja"}, {}}

PosIn(ts, t) == SetMin({k \in 1..Len(ts) : ts[k] = t})

InitCmp ==
    /\ pc = "finish"
    /\ termos \in {<<"a", "b">>, <<"b", "a">>}
    /\ first_n = MaxFirstN
    /\ nossas_lojas \in CmpLojas
    /\ idx = Len(termos) + 1
    /\ stop_evt = FALSE
    /\ cards = <<>> /\ i = 0 /\ selecionados = <<>> /\ vistos_links = {}
    /\ j = 0 /\ abandoned = FALSE
    /\ attempt = 0 /\ body = "" /\ reloaded = FALSE
    /\ shot = "none" /\ ok = FALSE
    /\ \E n \in 1..MaxRecs :
         \E ts \in [1..n -> CmpTerms], vs \in [1..n -> CmpSellers], ps \in [1..n -> CmpPrices] :
            /\ \A p, q \in 1..n : p < q => PosIn(termos, ts[p]) <= PosIn(termos, ts[q])
            /\ todos = [k \in 1..n |->
                           [Termo |-> ts[k], Link |-> k, Patrocinado |-> FALSE,
                            PrecoNum |-> ps[k], Vendedor |-> vs[k],
                            Nota |-> None, NAval |-> None]]
    /\ served = Len(todos)
    /\ parcial = Written(todos) /\ final = Unwritten /\ n_final = 0
    /\ progress_q = <<<<1, 2>>, <<2, 2>>>>
    /\ last_msgs = <<LogMsg("parcial salva"), ProgressMsg(2, 2)>>
    /\ n_fatal = 0 /\ fatal = FALSE
    /\ gui = GuiRunning
    /\ page = <<>> /\ waits = <<>> /\ scroll = NoScroll

NextCmp == Finish

SpecCmp == InitCmp /\ [][NextCmp]_vars

(***************************************************************************)
(* Properties of the final report.                                         *)
(***************************************************************************)
\* The seller of a row is a monitored store, names compared without case.
Monitored(row) == \E st \in nossas_lojas : Upper(st) = Upper(row.Rec.Vendedor)

\* The numeric prices of the monitored-store rows of a Term in the report.
MonitoredPrices(termo) ==
    {row.Rec.PrecoNum[2] :
        row \in {r \in Range(final.rows) :
                    r.Rec.Termo = termo /\ Monitored(r) /\ IsNum(r.Rec.PrecoNum)}}

\* C9: in every Term block of the report that has monitored-store numeric
\* prices, the operator minimum is the smallest of them, and every other
\* store's row with a numeric price p is tagged "Sim" exactly when p is below
\* that minimum, "Não" otherwise, and carries the minimum.
C9_ComparisonCorrect ==
    final.written =>
        \A row \in Range(final.rows) :
            LET M == MonitoredPrices(row.Rec.Termo)
            IN  M # {} =>
                  /\ row.NossoMenor = Num(SetMin(M))
                  /\ (~Monitored(row) /\ IsNum(row.Rec.PrecoNum)) =>
                        row.Concorrente =
                            (IF row.Rec.PrecoNum[2] < SetMin(M) THEN "Sim" ELSE "Nao")

\* C10: in the report the undercut flag is "Sim" or "Não" only on a row of a
\* non-monitored seller with a numeric price in a Term that has an operator
\* minimum; monitored-store rows, rows without a price and rows of a Term
\* without a monitored-store numeric price carry the empty marker.
C10_UndercutFlag ==
    final.written =>
        \A row \in Range(final.rows) :
            LET meaningful == /\ ~Monitored(row)
                              /\ IsNum(row.Rec.PrecoNum)
                              /\ MonitoredPrices(row.Rec.Termo) # {}
            IN  /\ row.Concorrente \in {"Sim", "Nao"} => meaningful
                /\ ~meaningful => row.Concorrente = ""

(***************************************************************************)
(* The ranking on its own: the worker stands at line 739 with a buffer     *)
(* collected for the Terms "b" and "a", in that order, whose records       *)
(* differ in sponsorship, rating and review count.                         *)
(***************************************************************************)
RankNotas == {None, Num(4), Num(5)}
RankNAvals == {None, Num(1), Num(2)}

InitRank ==
    /\ pc = "finish"
    /\ termos = <<"b", "a">>
    /\ first_n = MaxFirstN
    /\ nossas_lojas = {"Loja"}
    /\ idx = Len(termos) + 1
    /\ stop_evt = FALSE
    /\ cards = <<>> /\ i = 0 /\ selecionados = <<>> /\ vistos_links = {}
    /\ j = 0 /\ abandoned = FALSE
    /\ attempt = 0 /\ body = "" /\ reloaded = FALSE
    /\ shot = "none" /\ ok = FALSE
    /\ \E n \in 1..MaxRecs, nb \in 0..MaxRecs :
         \E ss \in [1..n -> BOOLEAN], ns \in [1..n -> RankNotas], cs \in [1..n -> RankNAvals] :
            /\ nb <= n
            /\ todos = [k \in 1..n |->
                           [Termo |-> IF k <= nb THEN "b" ELSE "a", Link |-> k,
                            Patrocinado |-> ss[k],
                            PrecoNum |-> Num(k),
                            Vendedor |-> IF k % 2 = 1 THEN "loja" ELSE "x",
                            Nota |-> ns[k], NAval |-> cs[k]]]
    /\ served = Len(todos)
    /\ parcial = Written(todos) /\ final = Unwritten /\ n_final = 0
    /\ progress_q = <<<<1, 2>>, <<2, 2>>>>
    /\ last_msgs = <<LogMsg("parcial salva"), ProgressMsg(2, 2)>>
    /\ n_fatal = 0 /\ fatal = FALSE
    /\ gui = GuiRunning
    /\ page = <<>> /\ waits = <<>> /\ scroll = NoScroll

NextRank == Finish

SpecRank == InitRank /\ [][NextRank]_vars

(***************************************************************************)
(* Properties of the order of the final report.                            *)
(***************************************************************************)
\* The records of the report, in report order.
ReportRecs == [k \in 1..Len(final.rows) |-> final.rows[k].Rec]

\* A descending key with missing values last puts x no later than y.
DescOrdered(x, y) == IsNum(y) => (IsNum(x) /\ x[2] >= y[2])
EqualKey(x, y) == IF IsNum(x) /\ IsNum(y) THEN x[2] = y[2] ELSE ~IsNum(x) /\ ~IsNum(y)

\* C11: the report holds the records of the buffer ordered by Term ascending;
\* within a Term non-sponsored rows come first; within equal sponsorship the
\* rating descends with missing ratings last; within equal rating the review
\* count descends with missing counts last.
C11_ReportOrder ==
    final.written =>
        /\ SameBag(ReportIds(final), BufferIds)
        /\ \A p, q \in 1..Len(final.rows) :
              p < q =>
                 LET r == ReportRecs[p]
                     s == ReportRecs[q]
                 IN  /\ ~(r.Termo = "b" /\ s.Termo = "a")
                     /\ r.Termo = s.Termo =>
                          /\ ~(r.Patrocinado /\ ~s.Patrocinado)
                          /\ r.Patrocinado = s.Patrocinado =>
                               /\ DescOrdered(r.Nota, s.Nota)
                               /\ EqualKey(r.Nota, s.Nota) => DescOrdered(r.NAval, s.NAval)

\* C11 witness: a report of three rows that is not in buffer order, with a
\* sponsored row and a missing rating.
C11_Witness ==
    /\ final.written
    /\ Len(final.rows) = 3
    /\ ReportIds(final) # BufferIds
    /\ \E p, q \in 1..3 :
          /\ ReportRecs[p].Patrocinado /\ ~ReportRecs[q].Patrocinado
          /\ ReportRecs[p].Termo = ReportRecs[q].Termo
    /\ \E p, q \in 1..3 :
          /\ ~IsNum(ReportRecs[p].Nota) /\ IsNum(ReportRecs[q].Nota)
          /\ ReportRecs[p].Termo = ReportRecs[q].Termo
          /\ ReportRecs[p].Patrocinado = ReportRecs[q].Patrocinado

\* C12: two rows of the same Term with equal sponsorship, rating and review
\* count are in the report in the order in which they were appended to the
\* buffer (the link of a record is its position in the buffer here).
C12_RankStable ==
    final.written =>
        \A p, q \in 1..Len(final.rows) :
            LET r == ReportRecs[p]
                s == ReportRecs[q]
            IN  (/\ p < q
                 /\ r.Termo = s.Termo
                 /\ r.Patrocinado = s.Patrocinado
                 /\ EqualKey(r.Nota, s.Nota)
                 /\ EqualKey(r.NAval, s.NAval)) => r.Link < s.Link

\* C12 witness: two rows with equal keys in a report that the sort reordered.
C12_Witness ==
    /\ final.written
    /\ ReportIds(final) # BufferIds
    /\ \E p, q \in 1..Len(final.rows) :
          /\ p < q
          /\ ReportRecs[p].Termo = ReportRecs[q].Termo
          /\ ReportRecs[p].Patrocinado = ReportRecs[q].Patrocinado
          /\ EqualKey(ReportRecs[p].Nota, ReportRecs[q].Nota)
          /\ EqualKey(ReportRecs[p].NAval, ReportRecs[q].NAval)
          /\ IsNum(ReportRecs[p].Nota)

(***************************************************************************)
(* The merge of list-page and detail-page values on its own (lines         *)
(* 695-720), with the price text kept: the worker stands at line 695 with  *)
(* one selected candidate on a Ready detail page.                          *)
(***************************************************************************)
\* A text value; None stands for a missing one.
Txt(s) == <<"txt", s>>

\* parse_preco_texto_to_float (lines 248-254), in centavos.
parse_preco_texto_to_float(preco_txt) ==
    CASE preco_txt = Txt("9,90") -> Num(990)
      [] preco_txt = Txt("12,50") -> Num(1250)
      [] preco_txt = Txt("0") -> Num(0)
      [] OTHER -> None          \* None, "", or a text float() rejects

\* What extrair_dados_card can return for price text, rating and review count.
ListPrecoTxts == {None, Txt(""), Txt("0"), Txt("9,90"), Txt("a")}
ListNotas == {None, Num(0), Num(4)}
ListNAvals == {None, Num(0), Num(7)}

\* What parse_preco_pdp and extrair_avaliacoes_pdp can return.
PdpPrecoTxts == {None, Txt(""), Txt("12,50")}
PdpNotas == {None, Num(5)}
PdpNAvals == {None, Num(3)}

\* The candidate of extrair_dados_card with its list-page values.
BaseFull(l, txt, nota, naval) ==
    [Link |-> l, Patrocinado |-> FALSE, PrecoTxtLista |-> txt,
     PrecoLista |-> parse_preco_texto_to_float(txt),
     NotaLista |-> nota, NAvalLista |-> naval]

\* Python's truth value of a text or None.
Falsy(x) == x = None \/ x = Txt("")

\* A rating merge that prefers the detail page.
nota_final_pdp_first(base, nota_pdp) ==
    IF nota_pdp # None THEN nota_pdp ELSE base.NotaLista

\* Lines 700-703.
preco_txt_final(base, preco_pdp_txt) ==
    IF ~Falsy(base.PrecoTxtLista) THEN base.PrecoTxtLista ELSE preco_pdp_txt
preco_num_final(base, preco_pdp_num) ==
    IF base.PrecoLista # None THEN base.PrecoLista ELSE preco_pdp_num
nota_final(base, nota_pdp) ==
    IF base.NotaLista # None THEN base.NotaLista ELSE nota_pdp
total_av_final(base, total_pdp) ==
    IF base.NAvalLista # None THEN base.NAvalLista ELSE total_pdp

\* The record of lines 705-720 with the price text.
EnrichedRecordFull(termo, base, preco_pdp_txt, vendedor, nota_pdp, total_pdp) ==
    [Termo |-> termo,
     Link |-> base.Link,
     Patrocinado |-> base.Patrocinado,
     Preco |-> preco_txt_final(base, preco_pdp_txt),
     PrecoNum |-> preco_num_final(base, parse_preco_texto_to_float(preco_pdp_txt)),
     Vendedor |-> vendedor,
     Nota |-> nota_final(base, nota_pdp),
     NAval |-> total_av_final(base, total_pdp)]

InitMerge ==
    /\ pc = "extract"
    /\ termos = <<"a">>
    /\ first_n = 1
    /\ nossas_lojas = {"Loja"}
    /\ served = 1
    /\ idx = 1
    /\ stop_evt = FALSE
    /\ cards = <<>> /\ i = 0 /\ vistos_links = {1}
    /\ \E txt \in ListPrecoTxts, nota \in ListNotas, naval \in ListNAvals :
          selecionados = <<BaseFull(1, txt, nota, naval)>>
    /\ j = 1 /\ abandoned = FALSE
    /\ attempt = 0 /\ body = "" /\ reloaded = FALSE
    /\ shot = "none" /\ ok = FALSE
    /\ todos = <<>> /\ parcial = Unwritten /\ final = Unwritten /\ n_final = 0
    /\ progress_q = <<>>
    /\ last_msgs = <<LogMsg("processando"), LogMsg("candidato")>>
    /\ n_fatal = 0 /\ fatal = FALSE
    /\ gui = GuiRunning
    /\ page = <<>> /\ waits = <<>> /\ scroll = NoScroll

\* Lines 695-722 on a page whose extractors return.
ExtractFull ==
    /\ pc = "extract"
    /\ \E txt \in PdpPrecoTxts, nota \in PdpNotas, naval \in PdpNAvals :
          todos' = Append(todos,
                      EnrichedRecordFull(termos[idx], selecionados[j], txt,
                                         NaoEncontrado, nota, naval))
    /\ pc' = "cand_top"
    /\ j' = j + 1
    /\ UNCHANGED <<gui, scroll, probeVars, termos, cfgVars, idx, stop_evt, cards, i, selecionados, vistos_links,
                   abandoned, pdpVars, parcial, final, n_final, msgVars>>

NextMerge == ExtractFull

SpecMerge == InitMerge /\ [][NextMerge]_vars

\* C13: in the record, each of price text, numeric price, rating and review
\* count is the list-page value when the candidate has one (a missing or
\* empty price text is no value) and the detail-page value otherwise; the
\* record appended by the worker is such a record.
C13_ListOverDetail ==
    /\ [](\A ltxt \in ListPrecoTxts, lnota \in ListNotas, lnaval \in ListNAvals,
             ptxt \in PdpPrecoTxts, pnota \in PdpNotas, pnaval \in PdpNAvals :
            LET base == BaseFull(1, ltxt, lnota, lnaval)
                rec == EnrichedRecordFull("a", base, ptxt, NaoEncontrado, pnota, pnaval)
            IN  /\ rec.Preco = (IF ltxt \in {None, Txt("")} THEN ptxt ELSE ltxt)
                /\ rec.PrecoNum = (IF base.PrecoLista = None
                                   THEN parse_preco_texto_to_float(ptxt)
                                   ELSE base.PrecoLista)
                /\ rec.Nota = (IF lnota = None THEN pnota ELSE lnota)
                /\ rec.NAval = (IF lnaval = None THEN pnaval ELSE lnaval))
    /\ [][ (pc = "extract" /\ pc' # pc) =>
              LET base == selecionados[j]
                  rec == todos'[Len(todos')]
              IN  /\ Len(todos') = Len(todos) + 1
                  /\ base.PrecoTxtLista \notin {None, Txt("")} => rec.Preco = base.PrecoTxtLista
                  /\ base.PrecoLista # None => rec.PrecoNum = base.PrecoLista
                  /\ base.NotaLista # None => rec.Nota = base.NotaLista
                  /\ base.NAvalLista # None => rec.NAval = base.NAvalLista
         ]_vars

\* C13 witness: a record that keeps the list-page price and a list-page
\* rating of 0, and takes the review count from the detail page.
C13_Witness ==
    /\ pc = "cand_top"
    /\ Len(todos) = 1
    /\ selecionados[1].PrecoTxtLista = Txt("9,90")
    /\ todos[1].Preco = Txt("9,90") /\ todos[1].PrecoNum = Num(990)
    /\ selecionados[1].NotaLista = Num(0) /\ todos[1].Nota = Num(0)
    /\ selecionados[1].NAvalLista = None /\ todos[1].NAval = Num(3)

(***************************************************************************)
(* title_to_user_query (lines 403-493) on titles made of a few kinds of    *)
(* words, and the Term loop top that calls it (lines 607-620).             *)
(***************************************************************************)
MaxTitleLen == 3   \* most words in a title

\* A quantity as the regular expression of line 429 captures it: digits, or
\* digits with one decimal digit.
Qty(whole) == <<whole>>
QtyDec(whole, tenth) == <<whole, tenth>>

\* The words of a title, upper-cased.
TokMotul == <<"brand", "MOTUL">>             \* a name of BRANDS
TokDid == <<"brand", "DID">>                 \* a shorter name of BRANDS
TokDid520 == <<"glued", "DID", "520">>       \* "DID520": a name of BRANDS glued to digits
TokWord == <<"word", "FILTRO">>              \* three or more letters
TokStop == <<"stop", "DE">>                  \* removed by the clean-up of line 490
TokCode == <<"code", "PH6017A">>             \* 1-3 letters, 3-6 digits, a letter
TokVis == <<"vis", "10W40">>
TokNum == <<"num", "5100">>
TokModel == <<"model", "2T">>
Cap(qty, unit) == <<"cap", qty, unit>>       \* quantity glued to its unit
CapTokens == {Cap(Qty(1), "L"), Cap(QtyDec(1, 0), "L"), Cap(Qty(2), "L"),
              Cap(QtyDec(1, 5), "L"), Cap(Qty(500), "ML"), Cap(QtyDec(2, 5), "ML")}
TitleTokens == {TokMotul, TokDid, TokDid520, TokWord, TokStop, TokCode, TokVis,
                TokNum, TokModel} \cup CapTokens
Titles == SeqsUpTo(TitleTokens, MaxTitleLen) \ {<<>>}

\* BRANDS of the model, longest first (line 412).
BRANDS == <<"MOTUL", "DID">>

\* str.title() and str.lower() on the words of the model.
TitleCase(w) ==
    CASE w = "MOTUL" -> "Motul" [] w = "DID" -> "Did" [] w = "FILTRO" -> "Filtro"
      [] OTHER -> w
LowerCase(w) ==
    CASE w = "10W40" -> "10w40" [] w = "2T" -> "2t" [] OTHER -> w

\* The parts of a query, joined by single spaces in the string.
Part(w) == <<"part", w>>
CapPart(qty, word) == <<"cap", qty, word>>
RawPart(tok) == <<"raw", tok>>

KindOf(tok) == tok[1]
OfKind(s, kind) == LET Is(tok) == KindOf(tok) = kind IN SelectSeq(s, Is)

\* float(qty), is_integer() and the text of int(val).
IsInteger(qty) == Len(qty) = 1 \/ qty[2] = 0
IntText(qty) == Qty(qty[1])

\* Lines 432-451: the capacity text of a quantity and a unit.
cap_litros(qty) ==
    IF IsInteger(qty) /\ qty[1] = 1 THEN CapPart(Qty(1), "litro")
    ELSE IF IsInteger(qty) THEN CapPart(IntText(qty), "litros")
    ELSE CapPart(qty, "litros")
cap_ml(qty) == CapPart(IntText(qty), "ml")        \* int(float(qty)): line 449
Capacidade(tok) == IF tok[3] = "L" THEN cap_litros(tok[2]) ELSE cap_ml(tok[2])

\* Lines 410-419: the brand, and the title with the brand name replaced by a
\* space.
HasBrand(s, b) == \E k \in 1..Len(s) : KindOf(s[k]) \in {"brand", "glued"} /\ s[k][2] = b
KnownBrand(s) ==
    IF HasBrand(s, BRANDS[1]) THEN BRANDS[1]
    ELSE IF HasBrand(s, BRANDS[2]) THEN BRANDS[2]
    ELSE ""
RECURSIVE RemoveBrand(_, _)
RemoveBrand(s, b) ==
    IF s = <<>> THEN <<>>
    ELSE LET tok == Head(s)
             rest == RemoveBrand(Tail(s), b)
         IN  IF KindOf(tok) = "brand" /\ tok[2] = b THEN rest
             ELSE IF KindOf(tok) = "glued" /\ tok[2] = b THEN <<(<<"num", tok[3]>>)>> \o rest
             ELSE <<tok>> \o rest
\* Lines 417-419: without a name of BRANDS, the first word of three letters or more.
FallbackBrand(s) ==
    LET ws == OfKind(s, "word")
    IN  IF ws = <<>> THEN "" ELSE TitleCase(ws[1][2])

\* Line 468: the word matches 1-3 letters, 3-6 digits, an optional letter.
IsCode(tok) == KindOf(tok) \in {"code", "glued"}

CodeText(tok) == IF KindOf(tok) = "glued" THEN "DID520" ELSE tok[2]

\* A join that keeps an empty brand.
KeepAll(parts) == parts

\* [p for p in parts if p]
NonEmpty(parts) == SelectSeq(parts, LAMBDA p : p # Part(""))

title_to_user_query(s) ==
    LET known == KnownBrand(s)
        up == IF known # "" THEN RemoveBrand(s, known) ELSE s
        brand == IF known # "" THEN TitleCase(known) ELSE FallbackBrand(up)
        vises == OfKind(up, "vis")
        caps == OfKind(up, "cap")
        nums == OfKind(up, "num")
        tokens == [k \in 1..Len(nums) |-> Part(nums[k][2])]
                  \o (IF OfKind(up, "model") # <<>> THEN <<Part("2t")>> ELSE <<>>)
        codes == SelectSeq(up, IsCode)
        parts == <<Part(brand)>> \o tokens
                 \o (IF vises # <<>> THEN <<Part(LowerCase(vises[1][2]))>> ELSE <<>>)
                 \o (IF caps # <<>> THEN <<Capacidade(caps[1])>> ELSE <<>>)
        consulta == NonEmpty(parts)
        kept == SelectSeq(s, LAMBDA tok : KindOf(tok) # "stop")
    IN  IF s = <<>> THEN <<>>
        ELSE IF codes # <<>> THEN NonEmpty(<<Part(brand), Part(CodeText(codes[1]))>>)
        ELSE IF consulta = <<>> \/ consulta = <<Part(brand)>>
             THEN [k \in 1..Len(kept) |-> RawPart(kept[k])]
        ELSE consulta

\* The log entry of line 619: the Term and its query.
QueryMsg(termo, consulta) == <<"log", "consulta", termo, consulta>>

InitQuery ==
    /\ pc = "term_top"
    /\ termos \in {<<t>> : t \in Titles}
    /\ first_n = 1
    /\ nossas_lojas = {"Loja"}
    /\ served = 0
    /\ idx = 1
    /\ stop_evt = FALSE
    /\ cards = <<>> /\ i = 0 /\ selecionados = <<>> /\ vistos_links = {}
    /\ j = 0 /\ abandoned = FALSE
    /\ attempt = 0 /\ body = "" /\ reloaded = FALSE
    /\ shot = "none" /\ ok = FALSE
    /\ todos = <<>> /\ parcial = Unwritten /\ final = Unwritten /\ n_final = 0
    /\ progress_q = <<>> /\ last_msgs = <<LogMsg("ua")>>
    /\ n_fatal = 0 /\ fatal = FALSE
    /\ gui = GuiRunning
    /\ page = <<>> /\ waits = <<>> /\ scroll = NoScroll

\* Lines 607-620 with raw_queries off: the query is synthesized from the Term.
TermTopQuery ==
    /\ pc = "term_top"
    /\ IF idx > total THEN
            /\ pc' = "close"
            /\ UNCHANGED last_msgs
       ELSE IF TermLoopStops THEN
            /\ pc' = "close"
            /\ Logged("interrompido")
       ELSE LET consulta == title_to_user_query(termos[idx])
            IN  IF consulta = <<>>
                THEN /\ pc' = "term_end"
                     /\ Logged("termo vazio")
                ELSE /\ pc' = "search"
                     /\ last_msgs' = Emit(Emit(last_msgs, QueryMsg(termos[idx], consulta)),
                                          LogMsg("url"))
    /\ UNCHANGED <<gui, scroll, probeVars, termos, cfgVars, idx, stop_evt, loopVars, pdpVars, outVars,
                   progress_q, n_fatal, fatal>>

NextQuery == TermTopQuery \/ TermEnd

SpecQuery == InitQuery /\ [][NextQuery]_vars

(***************************************************************************)
(* Properties of the synthesized query.                                    *)
(***************************************************************************)
\* The title and the query of the Term whose search is about to start.
QueryLogged == pc = "search" /\ Len(last_msgs) = 2 /\ Len(last_msgs[1]) = 4
TheTitle == last_msgs[1][3]
TheQuery == last_msgs[1][4]

\* The brand the title gives: the longest name of BRANDS in it, else its first
\* word of three letters or more, else none.
TitleBrand(title) ==
    IF \E k \in 1..Len(title) : title[k] = TokMotul THEN "Motul"
    ELSE IF \E k \in 1..Len(title) : title[k] \in {TokDid, TokDid520} THEN "Did"
    ELSE IF \E k \in 1..Len(title) : title[k] = TokWord THEN "Filtro"
    ELSE ""

\* The first product code found in the upper-cased title once the brand name
\* is taken out of it: "DID520" is one only when DID is not the brand.
TitleCodes(title) ==
    SelectSeq(title, LAMBDA tok : tok = TokCode \/ (tok = TokDid520 /\ TitleBrand(title) # "Did"))
TitleCode(title) == IF TitleCodes(title)[1] = TokCode THEN "PH6017A" ELSE "DID520"

\* C14 as stated: a title in which a product code is found gives the query
\* "<brand> <code>", two words, and nothing else.
C14_CodeShortCircuit ==
    (QueryLogged /\ TitleCodes(TheTitle) # <<>>) =>
        /\ Len(TheQuery) = 2
        /\ TheQuery[1] = Part(TitleBrand(TheTitle)) /\ TitleBrand(TheTitle) # ""
        /\ TheQuery[2] = Part(TitleCode(TheTitle))

\* C14 amended: a title in which a product code is found, once the brand name
\* is taken out, gives "<brand> <code>" when the title has a brand and the
\* code alone when it has none; no viscosity, capacity, numeric or model
\* token is part of the query.
C14_CodeShortCircuitBrandOptional ==
    (QueryLogged /\ TitleCodes(TheTitle) # <<>>) =>
        TheQuery = (IF TitleBrand(TheTitle) # ""
                    THEN <<Part(TitleBrand(TheTitle)), Part(TitleCode(TheTitle))>>
                    ELSE <<Part(TitleCode(TheTitle))>>)

\* C14 witness: a title with a brand, a code, and a viscosity or capacity.
C14_Witness ==
    /\ QueryLogged
    /\ TitleCodes(TheTitle) # <<>>
    /\ TitleBrand(TheTitle) # ""
    /\ \E k \in 1..Len(TheTitle) : KindOf(TheTitle[k]) \in {"vis", "cap", "num", "model"}

\* The capacity text the quantity and unit of a title word should give.
ExpectedCap(tok) ==
    LET qty == tok[2]
        whole == Len(qty) = 1 \/ qty[2] = 0
    IN  IF tok[3] = "L"
        THEN IF whole /\ qty[1] = 1 THEN <<"cap", <<1>>, "litro">>
             ELSE IF whole THEN <<"cap", <<qty[1]>>, "litros">>
             ELSE <<"cap", qty, "litros">>
        ELSE IF whole THEN <<"cap", <<qty[1]>>, "ml">>
             ELSE <<"cap", qty, "ml">>

\* C15: the capacity in the query is "1 litro" for one liter, "<n> litros"
\* for another whole number of liters, "<decimal> litros" for a fractional
\* one, "<n> ml" for whole milliliters, and the decimal as written followed
\* by " ml" for fractional milliliters.
C15_CapacityNormalized ==
    QueryLogged =>
        \A k \in 1..Len(TheQuery) :
            KindOf(TheQuery[k]) = "cap" =>
                TheQuery[k] = ExpectedCap(OfKind(TheTitle, "cap")[1])

\* C16: a Term with an empty query, a search that times out or a results
\* page without cards is skipped with a log entry and without a change of
\* the buffer; an empty query goes to the skip without a search navigation;
\* the skip emits the one progress tuple (idx, total) of the Term and the
\* worker goes on to the next Term; no other step emits a progress tuple
\* before the end of the run.
C16_SkippedTermsRecoverable ==
    [][ /\ (pc = "term_top" /\ pc' # pc /\ idx <= total /\ ~stop_evt /\ termos[idx] = "z") =>
               /\ pc' = "term_end"
               /\ last_msgs' = Emit(last_msgs, LogMsg("termo vazio"))
        /\ (pc = "search" /\ pc' = "term_end") =>
               last_msgs' = Emit(last_msgs, LogMsg("timeout na busca"))
        /\ (pc = "get_cards" /\ pc' = "term_end") =>
               last_msgs' = Emit(last_msgs, LogMsg("cards encontrados"))
        /\ (pc \in {"term_top", "search", "get_cards"} /\ pc' = "term_end") =>
               (todos' = todos /\ progress_q' = progress_q /\ ~fatal')
        /\ (pc = "term_end" /\ pc' # pc) =>
               /\ progress_q' = Append(progress_q, <<idx, total>>)
               /\ todos' = todos
               /\ pc' = "term_top" /\ idx' = idx + 1
        /\ (progress_q' # progress_q) => (pc = "term_end" \/ pc' = "done")
      ]_vars

\* C16 witness: the first of two Terms was skipped on a search timeout, its
\* progress tuple is out and the worker is at the next Term.
C16_Witness ==
    /\ pc = "search"
    /\ idx = 2
    /\ progress_q = <<<<1, 2>>>>
    /\ termos = <<"a", "z">> \/ termos = <<"a", "b">>
    /\ todos = <<>>

(***************************************************************************)
(* The run under a fair scheduler: the worker thread keeps taking steps.   *)
(***************************************************************************)
WorkerNext ==
    \/ Load \/ Launch \/ TermTop \/ Search \/ GetCards \/ ScanCard \/ ScanEnd
    \/ CandTop \/ PdpGoto \/ PdpGoto2 \/ PdpAntibot \/ PdpReady \/ PdpReload \/ PdpRet
    \/ Extract \/ Checkpoint \/ TermEnd \/ Close \/ Finish

SpecLive == Init /\ [][Next]_vars /\ WF_vars(WorkerNext)

\* C17: the worker terminates, and when it has, its last progress message is
\* (total, total) or (0, 0).
C17_RunTerminates ==
    /\ <>(pc = "done")
    /\ [](pc = "done" =>
            /\ progress_q # <<>>
            /\ progress_q[Len(progress_q)] \in {<<total, total>>, <<0, 0>>}
            /\ last_msgs[Len(last_msgs)] \in {ProgressMsg(total, total), ProgressMsg(0, 0)})

\* C17 witness: a cancelled run with collected records that has ended after
\* more than one progress tuple.
C17_Witness ==
    /\ pc = "done"
    /\ stop_evt
    /\ ~fatal
    /\ Len(progress_q) > 1
    /\ todos # <<>>

(***************************************************************************)
(* The App with its workers: the operator presses Start and Stop, the      *)
(* timer polls the queues, the first worker runs ScraperThread.run step by *)
(* step; a worker started by a second Start only exits at some point.      *)
(***************************************************************************)
InitGui ==
    /\ pc = "idle"
    /\ termos = <<>>
    /\ first_n = 1
    /\ nossas_lojas = {"Loja"}
    /\ served = MaxCards - 1
    /\ idx = 0
    /\ stop_evt = FALSE
    /\ cards = <<>> /\ i = 0 /\ selecionados = <<>> /\ vistos_links = {}
    /\ j = 0 /\ abandoned = FALSE
    /\ attempt = 0 /\ body = "" /\ reloaded = FALSE
    /\ shot = "none" /\ ok = FALSE
    /\ todos = <<>> /\ parcial = Unwritten /\ final = Unwritten /\ n_final = 0
    /\ progress_q = <<>> /\ last_msgs = <<>>
    /\ n_fatal = 0 /\ fatal = FALSE
    /\ gui = GuiIdle
    /\ page = <<>> /\ waits = <<>> /\ scroll = NoScroll

\* App._start (lines 889-919), bound to the Start button, with valid inputs:
\* the shared flag is cleared, the controls go to running, and a new
\* ScraperThread is started, whether or not an earlier one is still alive.
Start ==
    /\ gui.btn_start
    /\ gui.other = "none"
    /\ stop_evt' = FALSE
    /\ IF pc = "idle"
       THEN pc' = "load" /\ gui' = _toggle_controls(TRUE)
       ELSE pc' = pc /\ gui' = [_toggle_controls(TRUE) EXCEPT !.other = "alive"]
    /\ UNCHANGED <<scroll, probeVars, termos, cfgVars, idx, loopVars, pdpVars, outVars, msgVars>>

\* The worker started by the second Start ends its run, with or without the
\* closing tuple (total, total) of a non-empty Term list.
OtherExit ==
    /\ gui.other = "alive"
    /\ \E closing \in BOOLEAN :
          gui' = [gui EXCEPT !.other = "exited", !.other_tuple = closing]
    /\ UNCHANGED <<scroll, probeVars, pc, termos, cfgVars, idx, stop_evt, loopVars, pdpVars, outVars, msgVars>>

\* App._poll_queues (lines 938-956): the tuples not yet taken are taken; a
\* tuple with cur >= total > 0 puts the controls back to idle.
Poll ==
    /\ LET fresh == {k \in 1..Len(progress_q) : k > gui.polled}
           closes == \/ \E k \in fresh : /\ progress_q[k][1] >= progress_q[k][2]
                                         /\ progress_q[k][2] > 0
                     \/ gui.other_tuple
           taken == [gui EXCEPT !.polled = Len(progress_q), !.other_tuple = FALSE]
       IN  gui' = IF closes
                  THEN [taken EXCEPT !.btn_start = TRUE, !.btn_stop = FALSE]
                  ELSE taken
    /\ UNCHANGED <<scroll, probeVars, pc, termos, cfgVars, idx, stop_evt, loopVars, pdpVars, outVars, msgVars>>

NextGui == WorkerNext \/ Start \/ Stop \/ OtherExit \/ Poll

SpecGui == InitGui /\ [][NextGui]_vars

\* The number of ScraperThreads alive.
AliveWorkers == (IF TrackedAlive THEN 1 ELSE 0) + (IF gui.other = "alive" THEN 1 ELSE 0)

\* C18: at most one worker is alive, and the Start button is enabled only
\* when none is.
C18_OneWorkerAtATime ==
    /\ AliveWorkers <= 1
    /\ gui.btn_start => AliveWorkers = 0

\* C19: after Stop was requested for the first worker while it was alive,
\* that worker starts no further Term: its next step at the top of the Term
\* loop leaves the loop.
C19_StopNeverLost ==
    [][ (gui.stop_req /\ pc = "term_top" /\ pc' # pc) => pc' = "close" ]_vars

\* C20: in each attempt open_pdp issues at most two navigations, the second
\* only after the first timed out in the same attempt.  The anti-automation
\* check is reached from a navigation only with a loaded page.  When the
\* second navigation fails as well, the attempt ends: the diagnostic is
\* logged, no screenshot is taken, no check, probe or reload runs, and the
\* next attempt starts unless this was the last one, in which case open_pdp
\* returns False.
C20_LoadRetry ==
    [][ /\ (pc' = "pdp_goto" /\ (pc # "pdp_goto" \/ attempt' # attempt)) =>
                attempt' = attempt + 1
        /\ (pc' = "pdp_goto2" /\ pc' # pc) =>
                (pc = "pdp_goto" /\ UNCHANGED <<pdpVars, last_msgs>>)
        /\ (pc = "pdp_goto2" /\ pc' = pc) => UNCHANGED <<pdpVars, last_msgs>>
        /\ (pc \in {"pdp_goto", "pdp_goto2"} /\ pc' = "pdp_antibot") =>
                (body' \in Bodies /\ attempt' = attempt /\ UNCHANGED last_msgs)
        /\ (pc = "pdp_goto2" /\ pc' \notin {"pdp_goto2", "pdp_antibot"}) =>
                /\ last_msgs' = Emit(last_msgs, LogMsg("erro ao abrir PDP"))
                /\ shot' = shot /\ ~reloaded'
                /\ IF attempt < attempt_max
                   THEN pc' = "pdp_goto" /\ attempt' = attempt + 1
                   ELSE pc' = "pdp_ret" /\ ~ok' /\ attempt' = attempt
      ]_vars

\* C20 witness: the second navigation of the last attempt is about to be
\* issued, the attempt before it having ended with the diagnostic.
C20_Witness ==
    /\ pc = "pdp_goto2"
    /\ attempt = attempt_max
    /\ Len(last_msgs) > 0
    /\ last_msgs[Len(last_msgs)] = LogMsg("erro ao abrir PDP")

(***************************************************************************)
(* wait_pdp_ready on its own: every way the eleven selector waits can go.  *)
(***************************************************************************)
WaitResults == {"found", "timeout", "error"}

InitReady ==
    /\ pc = "probe"
    /\ termos = <<>>
    /\ first_n = 1
    /\ nossas_lojas = {"Loja"}
    /\ served = 0
    /\ idx = 0
    /\ stop_evt = FALSE
    /\ cards = <<>> /\ i = 0 /\ selecionados = <<>> /\ vistos_links = {}
    /\ j = 0 /\ abandoned = FALSE
    /\ attempt = 1 /\ body = "" /\ reloaded = FALSE
    /\ shot = "none" /\ ok = FALSE
    /\ todos = <<>> /\ parcial = Unwritten /\ final = Unwritten /\ n_final = 0
    /\ progress_q = <<>> /\ last_msgs = <<>>
    /\ n_fatal = 0 /\ fatal = FALSE
    /\ gui = GuiRunning
    /\ page \in [1..NumProbes -> WaitResults]
    /\ waits = <<>> /\ scroll = NoScroll

\* One call wait_pdp_ready(page, timeout_ms=25000) (lines 135-153): it returns
\* True or False, or an exception other than PWTimeout leaves it.
WaitPdpReady ==
    /\ pc = "probe"
    /\ LET r == wait_pdp_ready(page)
       IN  /\ pc' = IF r.raised THEN "probe_raised" ELSE "probe_ret"
           /\ ok' = r.ready
           /\ waits' = WaitsMade(ReadyTimeoutMs(FALSE), r.waits)
    /\ UNCHANGED <<gui, scroll, page, termos, cfgVars, idx, stop_evt, loopVars,
                   attempt, body, reloaded, shot, outVars, msgVars>>

NextReady == WaitPdpReady

SpecReady == InitReady /\ [][NextReady]_vars

\* The probes that did not time out on the page.
Answered == {k \in 1..NumProbes : page[k] # "timeout"}

\* The k-th probe of the three tiers: the title visible, then the markers
\* visible, then the markers attached.
TierProbe(k) ==
    IF k = 1 THEN [sel |-> 1, state |-> "visible"]
    ELSE IF k <= 1 + NumReadySelectors THEN [sel |-> k - 1, state |-> "visible"]
    ELSE [sel |-> k - 1 - NumReadySelectors, state |-> "attached"]

\* C21: wait_pdp_ready probes in the order title visible, each marker
\* visible, each marker attached; it returns True at the first probe that
\* finds its marker and probes no further, and it returns False exactly when
\* all the probes of the three tiers have timed out.
C21_TieredProbe ==
    pc \in {"probe_ret", "probe_raised"} =>
        /\ \A k \in 1..Len(waits) :
              /\ waits[k].sel = TierProbe(k).sel
              /\ waits[k].state = TierProbe(k).state
              /\ k < Len(waits) => page[k] = "timeout"
        /\ (pc = "probe_ret" /\ ok) <=>
              \E k \in Answered : page[k] = "found" /\ \A m \in Answered : m >= k
        /\ (pc = "probe_ret" /\ ok) => page[Len(waits)] = "found"
        /\ (pc = "probe_ret" /\ ~ok) <=> Answered = {}
        /\ (pc = "probe_ret" /\ ~ok) => Len(waits) = 1 + 2 * NumReadySelectors

\* C21 witness: Ready reported by an attached-tier probe after both visible
\* tiers timed out, on a page where a later probe would have found its marker too.
C21_Witness ==
    /\ pc = "probe_ret" /\ ok
    /\ Len(waits) = 2 + NumReadySelectors
    /\ page[NumProbes] = "found"

\* C22: within an attempt open_pdp reloads the page at most once, and only
\* after a readiness probe has gone through all its waits without success;
\* after the reload the probe is made once more, and only the failure of
\* that second probe ends the attempt as not ready.
C22_OneReloadPerAttempt ==
    [][ /\ (pc' = "pdp_reload" /\ pc' # pc) =>
              /\ pc = "pdp_ready" /\ ~reloaded /\ attempt' = attempt
              /\ Len(waits') = NumProbes
              /\ \A k \in 1..NumProbes : page'[k] = "timeout"
        /\ (pc = "pdp_reload" /\ pc' # pc) =>
              (pc' = "pdp_ready" /\ reloaded' /\ attempt' = attempt)
        /\ (pc = "pdp_ready" /\ reloaded) => pc' # "pdp_reload"
        /\ (pc = "pdp_ready" /\ ~reloaded /\ pc' # pc) =>
              (pc' = "pdp_reload" \/ (pc' = "pdp_ret" /\ ok'))
      ]_vars

\* C23: in every attempt, each selector wait of the readiness probe made
\* after the reload has a strictly smaller timeout than the same wait of the
\* first probe of that attempt.
C23_TighterAfterReload ==
    [][ (pc = "pdp_ready" /\ reloaded /\ pc' = "pdp_ret" /\ ok') =>
            /\ Len(waits) = NumProbes
            /\ \A k \in 1..Len(waits') : waits'[k].timeout < waits[k].timeout
      ]_vars

\* The positions of the worker inside one attempt of open_pdp, the
\* anti-automation check excepted.
AttemptPcs == {"pdp_goto", "pdp_goto2", "pdp_ready", "pdp_reload"}

\* The log entries open_pdp writes for a failed attempt.
Diagnostics == {LogMsg("erro ao abrir PDP"), LogMsg("PDP nao ficou pronta")}

\* C24: every attempt of open_pdp that ends without Ready and without an
\* anti-automation detection writes one diagnostic log entry and has tried
\* one screenshot before the next attempt starts or the visit is given up.
C24_FailedAttemptDiagnosed ==
    [][ (/\ pc \in AttemptPcs
         /\ \/ attempt' = attempt + 1
            \/ pc' = "pdp_ret" /\ ~ok') =>
            /\ \E d \in Diagnostics : last_msgs' = Emit(last_msgs, d)
            /\ shot' \in {"ok", "fail"}
      ]_vars

\* C25: every run that ends without a fatal error has written the final
\* artifact exactly once, with exactly the records of the run buffer as its
\* rows; the write comes after the browser was closed and after the last
\* checkpoint write, and nothing is written after it.
C25_FinalArtifactAtRunEnd ==
    /\ []((pc = "done" /\ ~fatal) =>
             /\ n_final = 1
             /\ final.written
             /\ SameBag(ReportIds(final), BufferIds))
    /\ [][ /\ n_final' # n_final => pc = "finish"
           /\ final.written => UNCHANGED <<parcial, final, n_final>>
         ]_vars

\* C25 as the code has it: a run that ends without a fatal error and with a
\* non-empty buffer has written the final artifact exactly once, with exactly
\* the records of the buffer as its rows; a run that ends with an empty
\* buffer has written none.  The write comes after the browser was closed,
\* and no artifact is written after it.
C25_FinalArtifactUnlessEmpty ==
    /\ []((pc = "done" /\ ~fatal /\ todos # <<>>) =>
             /\ n_final = 1
             /\ final.written
             /\ SameBag(ReportIds(final), BufferIds))
    /\ []((pc = "done" /\ todos = <<>>) => (n_final = 0 /\ ~final.written))
    /\ [][ /\ n_final' # n_final => (pc = "finish" /\ pc' = "done")
           /\ pc' = "finish" => pc \in {"close", "finish"}
           /\ final.written => UNCHANGED <<parcial, final, n_final, todos>>
         ]_vars

\* C25 witness: a finished run over two Terms that both gave records, the
\* checkpoint and the final artifact written.
C25_Witness ==
    /\ pc = "done" /\ ~fatal
    /\ n_final = 1
    /\ parcial.written
    /\ \E k, m \in 1..Len(todos) : todos[k].Termo # todos[m].Termo

\* The positions of the worker inside one iteration of the Term loop.
IterPcs == CandLoopPcs \cup {"search", "get_cards", "scan", "scan_end", "checkpoint", "term_end"}

\* The tuples (1, total) .. (n, total).
TermTuples(n) == [k \in 1..n |-> <<k, total>>]

\* The tuples a run may emit as its last one, outside the Term loop.
ClosingTuples == {<<0, 0>>, <<total, total>>}

\* The shape of the progress stream at every moment: the tuples of the Terms,
\* then at most one closing tuple, which ends the run.
ProgressShape ==
    /\ \A k \in 1..Len(progress_q) :
          0 <= progress_q[k][1] /\ progress_q[k][1] <= progress_q[k][2]
    /\ \/ progress_q = TermTuples(Len(progress_q))
       \/ /\ pc = "done"
          /\ progress_q # <<>>
          /\ SubSeq(progress_q, 1, Len(progress_q) - 1) = TermTuples(Len(progress_q) - 1)
          /\ progress_q[Len(progress_q)] \in ClosingTuples
    /\ pc \in IterPcs \cup {"term_top", "close", "finish"} =>
          progress_q = TermTuples(idx - 1)

\* C26: in the progress tuples of a run the total is the number of loaded
\* Terms, every tuple has 0 <= current <= total, the Terms' tuples are
\* (1, total), (2, total), ... in this order, only the last tuple of the run
\* may be (0, 0) or (total, total) again, and every Term iteration the worker
\* starts emits exactly one tuple (idx, total).
C26_ProgressStream ==
    /\ []ProgressShape
    /\ [][ /\ (pc = "term_top" /\ pc' \in IterPcs) => ~stop_evt
           /\ (pc \in IterPcs /\ pc' \notin IterPcs) =>
                 (progress_q' = Append(progress_q, <<idx, total>>) /\ idx' = idx + 1)
         ]_vars

\* C26 as the code has it: the same, but a Term iteration that a fatal
\* error ends emits no tuple of its own; the run then closes with (0, 0).
C26_ProgressStreamUnlessFatal ==
    /\ []ProgressShape
    /\ [][ /\ (pc = "term_top" /\ pc' \in IterPcs) => ~stop_evt
           /\ (pc \in IterPcs /\ pc' \notin IterPcs /\ ~fatal') =>
                 (progress_q' = Append(progress_q, <<idx, total>>) /\ idx' = idx + 1)
           /\ (pc \in IterPcs /\ pc' \notin IterPcs /\ fatal') =>
                 (progress_q' = Append(progress_q, <<0, 0>>) /\ pc' = "done")
         ]_vars

\* C26 witness: a run over two Terms that went through both and closed by
\* repeating (total, total).
C26_Witness ==
    /\ pc = "done" /\ ~fatal
    /\ total = 2
    /\ progress_q = <<<<1, 2>>, <<2, 2>>, <<2, 2>>>>

\* The App with its scheduling: the worker thread keeps running while it can,
\* and _poll_queues re-arms itself every 150 ms (line 956).
SpecGuiLive == InitGui /\ [][NextGui]_vars /\ WF_vars(WorkerNext) /\ WF_vars(Poll)

\* The controls are idle: Start enabled, Stop disabled.
ControlsIdle == gui.btn_start /\ ~gui.btn_stop

\* C27: whenever the worker has terminated, however its run ended, the
\* polling of the progress queue eventually puts the controls back to idle.
C27_ControlsReturnToIdle ==
    (pc = "done" /\ gui.other = "none") ~> ControlsIdle

\* C28: the run buffer changes only by one record appended at its end, and
\* what the run last wrote to the partial artifact is at every moment a
\* prefix of the buffer.
C28_AppendOnlyPrefixCheckpoint ==
    /\ [](IsPrefix(parcial.rows, todos))
    /\ [][ \/ todos' = todos
           \/ /\ Len(todos') = Len(todos) + 1
              /\ SubSeq(todos', 1, Len(todos)) = todos
              /\ pc = "extract"
         ]_vars

\* C28 witness: the buffer has grown past the checkpoint written after an
\* earlier Term.
C28_Witness ==
    /\ parcial.written
    /\ parcial.rows # <<>>
    /\ Len(parcial.rows) < Len(todos)
    /\ todos[Len(todos)].Termo # parcial.rows[1].Termo

(***************************************************************************)
(* The behaviour simulator on its own: human_move_mouse, then human_scroll, *)
(* as run() calls them at lines 632-633 and 690-691.                       *)
(***************************************************************************)
step_px == <<120, 300>>     \* default of human_scroll
jitter_px == 30             \* default of human_scroll
MaxTotalPx == 200
TotalPxs == {1, 90, 91, MaxTotalPx}

\* int(rand(a, b)) drawn from 0 upwards.
IntRandFromZero(a, b) == 0..b

\* int(rand(a, b)): the integer part of a uniform draw from [a, b].
IntRand(a, b) == a..b

\* random.randint(a, b)
RandInt(a, b) == a..b

\* Line 209: step = int(rand(*step_px)) + random.randint(-jitter_px, jitter_px).
StepDraws ==
    {base + jit : base \in IntRand(step_px[1], step_px[2]),
                  jit \in RandInt(-jitter_px, jitter_px)}

InitScroll ==
    /\ pc = "humanize"
    /\ termos = <<>>
    /\ first_n = 1
    /\ nossas_lojas = {"Loja"}
    /\ served = 0
    /\ idx = 0
    /\ stop_evt = FALSE
    /\ cards = <<>> /\ i = 0 /\ selecionados = <<>> /\ vistos_links = {}
    /\ j = 0 /\ abandoned = FALSE
    /\ attempt = 0 /\ body = "" /\ reloaded = FALSE
    /\ shot = "none" /\ ok = FALSE
    /\ todos = <<>> /\ parcial = Unwritten /\ final = Unwritten /\ n_final = 0
    /\ progress_q = <<>> /\ last_msgs = <<>>
    /\ n_fatal = 0 /\ fatal = FALSE
    /\ gui = GuiRunning
    /\ page = <<>> /\ waits = <<>>
    /\ scroll \in {[NoScroll EXCEPT !.st = "move", !.moves = m, !.total_px = t] :
                      m \in RandInt(2, 5), t \in TotalPxs}

\* human_move_mouse (lines 218-226): one pointer move of the loop, or the end
\* of the loop, or an exception (reading the viewport, or in a move), which
\* is swallowed.  human_scroll is entered next with its counter at 0.
HumanMoveMouse ==
    /\ scroll.st = "move"
    /\ \/ /\ scroll.moves > 0
          /\ scroll' = [scroll EXCEPT !.moves = @ - 1]
       \/ /\ scroll.moves > 0
          /\ scroll' = [scroll EXCEPT !.st = "loop", !.moves = 0, !.move_failed = TRUE]
       \/ /\ scroll.moves = 0
          /\ scroll' = [scroll EXCEPT !.st = "loop"]
    /\ UNCHANGED <<gui, probeVars, pc, termos, cfgVars, idx, stop_evt, loopVars, pdpVars,
                   outVars, msgVars>>

\* human_scroll (lines 208-215): one turn of the while loop.  The step is
\* drawn, the wheel call either scrolls or raises, and a raise leaves the loop.
HumanScrollStep ==
    /\ scroll.st = "loop"
    /\ IF scroll.scrolled < scroll.total_px
       THEN \E step \in StepDraws :
               \/ scroll' = [scroll EXCEPT !.step = step, !.scrolled = @ + step]
               \/ scroll' = [scroll EXCEPT !.step = step, !.failed = TRUE,
                                           !.st = "returned"]
       ELSE scroll' = [scroll EXCEPT !.st = "returned"]
    /\ UNCHANGED <<gui, probeVars, pc, termos, cfgVars, idx, stop_evt, loopVars, pdpVars,
                   outVars, msgVars>>

NextScroll == HumanMoveMouse \/ HumanScrollStep

SpecScroll == InitScroll /\ [][NextScroll]_vars /\ WF_vars(NextScroll)

\* C29: for a positive target distance and the default step and jitter
\* ranges, every step human_scroll passes to the wheel is positive, the
\* call returns, and when it has returned either the distance scrolled is at
\* least the target or a wheel call failed; no failure of a wheel call or of
\* a pointer move reaches the caller.
C29_ScrollTerminatesSilently ==
    /\ [](scroll.st \in {"move", "loop", "returned"})
    /\ [][ (scroll.st = "loop" /\ scroll' # scroll /\ scroll.scrolled < scroll.total_px) =>
               scroll'.step > 0 ]_vars
    /\ [](scroll.st = "returned" =>
             (scroll.scrolled >= scroll.total_px \/ scroll.failed))
    /\ [](scroll.move_failed => scroll.st \in {"loop", "returned"})
    /\ <>(scroll.st = "returned")

\* C29 witness: a pointer move failed, and the scroll then reached its target
\* in more than one step.
C29_Witness ==
    /\ scroll.st = "returned"
    /\ scroll.move_failed /\ ~scroll.failed
    /\ scroll.total_px = MaxTotalPx
    /\ scroll.scrolled > scroll.step

====
